---- MODULE Spec2Model ----
(***************************************************************************)
(* A model of iKalibr's calibration data manager (CalibDataManager:        *)
(* LoadCalibData, AdjustCalibDataSequence, AlignTimestamp and the time     *)
(* accessors) and of the pose-query interface of the calibration solver    *)
(* (CalibSolver: GetScaleType, CurBrToW, CurLkToW, CurCmToW, CurRjToW),    *)
(* of its bridge to structure from motion (StoreImagesForSfM,              *)
(* TryLoadSfMData, DownsampleVeta), of its gravity alignment               *)
(* (AlignStatesToGravity) and of its life from constructor to destructor   *)
(* (the solver callbacks, SaveStageCalibParam, the viewer).                *)
(*                                                                         *)
(* Spec runs the data manager, SpecSolver the pose queries, SpecBridge the *)
(* bridge, SpecGravity the gravity alignment and SpecRun the solver's      *)
(* life; each starts the variables of the others in a fixed idle state.    *)
(* SpecQuery runs the time-range query of the log, SpecPadding the loading *)
(* under other time-offset paddings, and SpecRunFair is SpecRun with the   *)
(* scheduling of the destructor and the viewer.                            *)
(*                                                                         *)
(* Time.  Timestamps are doubles in the program.  Here a timestamp is an   *)
(* integer number of "units"; sensor messages are stamped on a grid of     *)
(* ticks, one tick being Unit units, and Unit is divisible by every group  *)
(* size the radar regrouping can produce, so that the quotients            *)
(* target->GetTimestamp() / targets.size() are exact.  Floating-point      *)
(* rounding is not modelled: arithmetic on timestamps is exact.            *)
(***************************************************************************)
EXTENDS Integers, Sequences, FiniteSets, TLC

\* ---------------------------------------------------------------------------
\* bounds of the model
\* ---------------------------------------------------------------------------
\* message stamps range over the ticks 0..MaxTick
MaxTick == 6
\* at most MaxFrames messages are read per inertial, scan, camera or
\* array-radar topic
MaxFrames == 4
\* at most MaxReadings single-target readings are read per AWR1843BOOST topic
MaxReadings == 5
\* the tick of the frame every stream holds when the solver is constructed
LoadedTick == 2
\* the images and the points of a reconstruction
MaxImages == 2
\* the cameras of a reconstruction
MaxCameras == 2
MaxPoints == 2
\* the observations in the track of a reconstructed point
MaxTrackLen == 3
\* the largest reprojection error of a reconstructed point
MaxError == 2
\* the iterations of a solve
MaxIters == 2
\* the knots of a spline
MaxKnots == 2

\* ---------------------------------------------------------------------------
\* program constants
\* ---------------------------------------------------------------------------
\* the merge gap of the radar regrouping, 0.1 s, in ticks
RadarMergeTicks == 2

RECURSIVE Fact(_)
Fact(n) == IF n <= 1 THEN 1 ELSE n * Fact(n - 1)

Unit == Fact(MaxReadings)
RadarMergeGap == RadarMergeTicks * Unit
\* the value Configor::Prior::TimeOffsetPadding is configured with unless said
\* otherwise: half a tick (0.025 s)
HalfTickPadding == Unit \div 2
\* std::size_t arithmetic wraps around; the modulus 2^64 is narrowed to 2^30,
\* which is as far above every size of the model
SizeModulus == 1073741824
\* the factor 1E3 that turns a timestamp into the milliseconds of a camera id
MsPerSecond == 1000
\* the merge gap is a tenth of a second
UnitsPerSecond == 10 * RadarMergeGap

Stamps == {k * Unit : k \in 0..MaxTick}

Max(a, b) == IF a >= b THEN a ELSE b
Min(a, b) == IF a <= b THEN a ELSE b
Abs(a) == IF a < 0 THEN 0 - a ELSE a

\* ---------------------------------------------------------------------------
\* configuration (Configor::DataStream)
\* ---------------------------------------------------------------------------
AllTopics == {"imu0", "imu1", "rad_awr", "rad_arr", "lid0", "cam0"}

\* std::map iterates its keys in lexicographic order
TopicRank(tp) ==
    CASE tp = "cam0" -> 1
      [] tp = "imu0" -> 2
      [] tp = "imu1" -> 3
      [] tp = "lid0" -> 4
      [] tp = "rad_arr" -> 5
      [] tp = "rad_awr" -> 6

\* the radar model of a radar topic's loader: one AWR1843BOOST topic, one topic of a
\* model with native array output
GetRadarModel(tp) == IF tp = "rad_awr" THEN "AWR1843BOOST_RAW" ELSE "NATIVE_ARRAY"

\* the models whose raw streams hold one target per message
NeedsRegrouping(tp) ==
    GetRadarModel(tp) \in {"AWR1843BOOST_RAW", "AWR1843BOOST_CUSTOM"}

MkConfig(imu, radar, lidar, cam) ==
    [IMUTopics |-> imu, RadarTopics |-> radar, LiDARTopics |-> lidar, CameraTopics |-> cam,
     TimeOffsetPadding |-> HalfTickPadding]

\* the sensor mixes whose logs are loaded
LoadMixes ==
    { MkConfig({"imu0"}, {}, {}, {}),
      MkConfig({"imu0", "imu1"}, {}, {}, {}),
      MkConfig({"imu0"}, {"rad_awr"}, {}, {}),
      MkConfig({"imu0"}, {"rad_arr"}, {}, {}),
      MkConfig({"imu0"}, {}, {"lid0"}, {}),
      MkConfig({"imu0"}, {}, {}, {"cam0"}) }

VARIABLES
    cfg,                    \* Configor::DataStream topic maps
    bag,                    \* the log: whether BagPath exists, whether the bag is open
    view,                   \* the span of the log, the configured range and the range queried
    pc,                     \* position inside LoadCalibData
    status,                 \* the Status thrown, "" when none
    imuMes,                 \* _imuMes
    radarMes,               \* _radarMes
    lidarMes,               \* _lidarMes
    camMes,                 \* _camMes
    unpacked,               \* what the unpacker returned for the last message read
    oldRadarMes,            \* the copy of _radarMes taken before regrouping
    rawStartTimestamp,      \* _rawStartTimestamp
    rawEndTimestamp,        \* _rawEndTimestamp
    alignedStartTimestamp,  \* _alignedStartTimestamp
    alignedEndTimestamp,    \* _alignedEndTimestamp
    splines,                \* the solver's _splines, NoSplines before construction
    TO,                     \* the parameter manager's TEMPORAL time offsets, by topic
    EXTRI,                  \* the parameter manager's EXTRI transforms to the body, by topic
    scaleTypes,             \* every value GetScaleType has returned so far
    ret,                    \* what the last solver call returned or threw
    sfm,                    \* the SfM workspace of the camera topic and the thresholds
    veta,                   \* the ns_veta::Veta the solver holds, NoVeta when none
    sfmRet,                 \* what the last reconstruction-bridge call returned or threw
    so3Knots,               \* the knots of the orientation spline
    scaleKnots,             \* the knots of the scale spline
    GRAVITY,                \* the parameter manager's GRAVITY
    dirs,                   \* the output directories: stage, epoch, images
    paramInEachIter,        \* OutputOption::ParamInEachIter is among the outputs
    life,                   \* the solver: unconstructed, alive, failed, waiting, destroyed
    viewer,                 \* the viewer: whether it is active, whether it was told to quit
    ceres,                  \* _ceresOption.callbacks and the iterations run with them
    debugCb,                \* the CeresDebugCallBack: _idx and whether _iterInfoFile is open
    solveFinished,          \* _solveFinished
    written,                \* the files written so far
    warnings,               \* the warnings logged so far
    runRet                  \* what the last solver operation did

\* Configor::Prior::TimeOffsetPadding
TimeOffsetPadding == cfg.TimeOffsetPadding

dataVars == <<cfg, bag, view, pc, status, unpacked, imuMes, radarMes, lidarMes, camMes, oldRadarMes,
              rawStartTimestamp, rawEndTimestamp, alignedStartTimestamp,
              alignedEndTimestamp>>

solverVars == <<splines, TO, EXTRI, scaleTypes, ret>>

bridgeVars == <<sfm, veta, sfmRet>>

gravityVars == <<so3Knots, scaleKnots, GRAVITY>>

runVars == <<dirs, paramInEachIter, life, viewer, ceres, debugCb, solveFinished, written,
             warnings, runRet>>

stageVars == <<bridgeVars, gravityVars, runVars>>

vars == <<dataVars, solverVars, stageVars>>

IsRadarIntegrated == cfg.RadarTopics # {}
IsLiDARIntegrated == cfg.LiDARTopics # {}
IsCameraIntegrated == cfg.CameraTopics # {}

\* ---------------------------------------------------------------------------
\* frames
\* ---------------------------------------------------------------------------
\* every frame counts the calls of its SetTimestamp in nSet
IMUFrame(t) == [ts |-> t, nSet |-> 0]
\* a radar target array: its own time and the times of its targets
RadarTargetArray(t, tars) == [ts |-> t, targets |-> tars, nSet |-> 0]
\* a scan: its own time and the times of its points
LiDARFrame(t) == [ts |-> t, scan |-> <<t>>, nSet |-> 0]
\* id: the raw timestamp in milliseconds, truncated
CameraId(t) == (t * MsPerSecond) \div UnitsPerSecond
CameraFrame(t) == [ts |-> t, id |-> CameraId(t), nSet |-> 0]

\* a rigid transform is the product of the factors it was composed of, in
\* order: the identity has none, and the product appends
IdentitySE3 == <<>>
\* the extrinsic the estimator holds for a topic once it is not the identity
EstimatedSE3(tp) == <<[extri |-> tp]>>
Mul(a, b) == a \o b

\* no solver has been constructed
NoSplines == [created |-> FALSE]

EmptyMap(topics) == [tp \in topics |-> <<>>]

\* no reconstruction has been exported or imported
NoVeta == [loaded |-> FALSE]
NoWorkspace ==
    [exported |-> FALSE, hasInfo |-> FALSE, workspace |-> "creatable", hasCameras |-> FALSE,
     hasImages |-> FALSE, hasPoints |-> FALSE, cameras |-> 0]
BridgeIdle ==
    /\ sfm = NoWorkspace
    /\ veta = NoVeta
    /\ sfmRet = [fn |-> "none"]

\* the canonical down axis: vectors are the six signed axes, the axis k as k
\* and its opposite as -k
DownAxis == 0 - 3

\* no knots are kept where the trajectory is not looked at
GravityIdle ==
    /\ so3Knots = <<>>
    /\ scaleKnots = <<>>
    /\ GRAVITY = DownAxis

\* the state of a solver that has not been constructed
NoViewer == [active |-> FALSE, quit |-> FALSE]
NoCallbacks == [callbacks |-> <<>>, iters |-> 0, returns |-> {}, stopped |-> FALSE]
NoDebugCallBack == [idx |-> 0, iterInfoFile |-> FALSE]

Unconstructed ==
    /\ life = "unconstructed"
    /\ viewer = NoViewer
    /\ ceres = NoCallbacks
    /\ debugCb = NoDebugCallBack
    /\ solveFinished = FALSE
    /\ written = {}
    /\ warnings = {}
    /\ runRet = [fn |-> "none"]

RunIdle ==
    /\ Unconstructed
    /\ dirs = [stage |-> "creatable", epoch |-> "creatable", images |-> "creatable"]
    /\ paramInEachIter = FALSE

\* the log before LoadCalibData and after rosbag::Bag::open
\* the offsets of a range, in ticks: BeginTime and Duration are not positive
\* when they are not configured
OffsetTicks == (0 - 1)..(MaxTick + 1)

\* a log and the range configured for it: the times of the first and the last
\* message of the queried topics, Configor::DataStream::BeginTime and
\* Configor::DataStream::Duration; begTime and endTime are the range queried,
\* both at the begin of the log until the query, and warnings are those logged
LogView(logBeg, logEnd, BeginTime, Duration) ==
    [logBeg |-> logBeg, logEnd |-> logEnd, BeginTime |-> BeginTime, Duration |-> Duration,
     begTime |-> logBeg, endTime |-> logBeg, warnings |-> {}]

\* the log over all the ticks, no range configured
WholeLog == LogView(0, MaxTick * Unit, 0 - Unit, 0 - Unit)

\* variant: an end after the end of the log is kept
ClampEnd_Unclamped(endTime, logEnd) == endTime

\* if (endTime > viewTemp.getEndTime()) endTime = viewTemp.getEndTime()
ClampEnd(endTime, logEnd) == IF endTime > logEnd THEN logEnd ELSE endTime

\* "adjust the data time range": begTime and endTime of the second query
QueriedView(v) ==
    LET moved == IF v.BeginTime > 0 THEN v.logBeg + v.BeginTime ELSE v.logBeg
        begOut == v.BeginTime > 0 /\ moved > v.logEnd
        begTime == IF begOut THEN v.logBeg ELSE moved
        asked == IF v.Duration > 0 THEN begTime + v.Duration ELSE v.logEnd
        endOut == v.Duration > 0 /\ asked > v.logEnd
        endTime == IF v.Duration > 0 THEN ClampEnd(asked, v.logEnd) ELSE v.logEnd
    IN  [v EXCEPT !.begTime = begTime, !.endTime = endTime,
                  !.warnings = {w \in {"begin"} : begOut} \cup {w \in {"end"} : endOut}]

\* the messages of the view are those of the range queried
InView(t) == view.begTime <= t /\ t <= view.endTime

ClosedBag(exists) == [pathExists |-> exists, opened |-> FALSE, errorLogged |-> FALSE]
OpenedBag == [pathExists |-> TRUE, opened |-> TRUE, errorLogged |-> FALSE]

Init ==
    /\ cfg \in LoadMixes
    /\ bag \in {ClosedBag(exists) : exists \in BOOLEAN}
    /\ view = WholeLog
    /\ pc = "opening"
    /\ status = ""
    /\ unpacked = "none"
    /\ imuMes = EmptyMap(cfg.IMUTopics)
    /\ radarMes = EmptyMap(cfg.RadarTopics)
    /\ lidarMes = EmptyMap(cfg.LiDARTopics)
    /\ camMes = EmptyMap(cfg.CameraTopics)
    /\ oldRadarMes = EmptyMap(cfg.RadarTopics)
    /\ rawStartTimestamp = 0
    /\ rawEndTimestamp = 0
    /\ alignedStartTimestamp = 0
    /\ alignedEndTimestamp = 0
    /\ splines = NoSplines
    /\ TO = [tp \in cfg.RadarTopics \cup cfg.LiDARTopics \cup cfg.CameraTopics |-> 0]
    /\ EXTRI = [tp \in DOMAIN TO |-> IdentitySE3]
    /\ scaleTypes = {}
    /\ ret = [fn |-> "none"]
    /\ BridgeIdle
    /\ GravityIdle
    /\ RunIdle

\* ---------------------------------------------------------------------------
\* LoadCalibData: reading the log
\* ---------------------------------------------------------------------------
\* opening the bag: a path that does not exist is logged as an error, and
\* LoadCalibData goes on with the bag that was not opened
OpenBag ==
    /\ pc = "opening"
    /\ bag' = IF bag.pathExists THEN [bag EXCEPT !.opened = TRUE]
              ELSE [bag EXCEPT !.errorLogged = TRUE]
    /\ pc' = "querying"
    /\ UNCHANGED <<cfg, view, status, unpacked, imuMes, radarMes, lidarMes, camMes, oldRadarMes,
                   rawStartTimestamp, rawEndTimestamp, alignedStartTimestamp,
                   alignedEndTimestamp>>
    /\ UNCHANGED <<solverVars, stageVars>>

\* rosbag::View::addQuery on a bag that was not opened for reading: the
\* library throws a BagException, or the view stays empty
AddQueryOutcomes(b) == IF b.opened THEN {"view"} ELSE {"BagException", "view"}

\* the queries of the topics and of the time span
QueryBag ==
    /\ pc = "querying"
    /\ \E out \in AddQueryOutcomes(bag) :
        IF out = "view"
        THEN pc' = "reading" /\ status' = status /\ view' = QueriedView(view)
        ELSE pc' = "exception" /\ status' = "Bag not opened for reading" /\ view' = view
    /\ UNCHANGED <<cfg, bag, unpacked, imuMes, radarMes, lidarMes, camMes, oldRadarMes,
                   rawStartTimestamp, rawEndTimestamp, alignedStartTimestamp,
                   alignedEndTimestamp>>
    /\ UNCHANGED <<solverVars, stageVars>>

\* messages of one topic come in time order: the stamps of a periodic stream
\* (inertial, scan, camera, array radar) increase, while the single-target
\* readings of one radar sweep may share a stamp
InOrder(seq, t) == IF seq = <<>> THEN TRUE ELSE seq[Len(seq)].ts < t
ReadingInOrder(seq, t) == IF seq = <<>> THEN TRUE ELSE seq[Len(seq)].ts <= t

Cap(tp) == IF tp \in cfg.RadarTopics /\ NeedsRegrouping(tp)
           THEN MaxReadings ELSE MaxFrames

ReadIMU ==
    /\ pc = "reading"
    /\ bag.opened
    /\ \E tp \in cfg.IMUTopics, t \in Stamps :
        /\ InView(t)
        /\ Len(imuMes[tp]) < Cap(tp)
        /\ InOrder(imuMes[tp], t)
        /\ imuMes' = [imuMes EXCEPT ![tp] = Append(@, IMUFrame(t))]
    /\ unpacked' = "frame"
    /\ UNCHANGED <<cfg, bag, view, pc, status, radarMes, lidarMes, camMes, oldRadarMes,
                   rawStartTimestamp, rawEndTimestamp, alignedStartTimestamp,
                   alignedEndTimestamp>>
    /\ UNCHANGED <<solverVars, stageVars>>

ReadRadar ==
    /\ pc = "reading"
    /\ bag.opened
    /\ \E tp \in cfg.RadarTopics, t \in Stamps :
        /\ InView(t)
        /\ Len(radarMes[tp]) < Cap(tp)
        /\ IF NeedsRegrouping(tp) THEN ReadingInOrder(radarMes[tp], t)
           ELSE InOrder(radarMes[tp], t)
        /\ radarMes' = [radarMes EXCEPT ![tp] = Append(@, RadarTargetArray(t, <<t>>))]
    /\ unpacked' = "frame"
    /\ UNCHANGED <<cfg, bag, view, pc, status, imuMes, lidarMes, camMes, oldRadarMes,
                   rawStartTimestamp, rawEndTimestamp, alignedStartTimestamp,
                   alignedEndTimestamp>>
    /\ UNCHANGED <<solverVars, stageVars>>

ReadLiDAR ==
    /\ pc = "reading"
    /\ bag.opened
    /\ \E tp \in cfg.LiDARTopics, t \in Stamps :
        /\ InView(t)
        /\ Len(lidarMes[tp]) < Cap(tp)
        /\ InOrder(lidarMes[tp], t)
        /\ lidarMes' = [lidarMes EXCEPT ![tp] = Append(@, LiDARFrame(t))]
    /\ unpacked' = "frame"
    /\ UNCHANGED <<cfg, bag, view, pc, status, imuMes, radarMes, camMes, oldRadarMes,
                   rawStartTimestamp, rawEndTimestamp, alignedStartTimestamp,
                   alignedEndTimestamp>>
    /\ UNCHANGED <<solverVars, stageVars>>

ReadCamera ==
    /\ pc = "reading"
    /\ bag.opened
    /\ \E tp \in cfg.CameraTopics, t \in Stamps :
        /\ InView(t)
        /\ Len(camMes[tp]) < Cap(tp)
        /\ InOrder(camMes[tp], t)
        /\ camMes' = [camMes EXCEPT ![tp] = Append(@, CameraFrame(t))]
    /\ unpacked' = "frame"
    /\ UNCHANGED <<cfg, bag, view, pc, status, imuMes, radarMes, lidarMes, oldRadarMes,
                   rawStartTimestamp, rawEndTimestamp, alignedStartTimestamp,
                   alignedEndTimestamp>>
    /\ UNCHANGED <<solverVars, stageVars>>

\* CameraDataLoader::CheckMessage: a message that could not be instantiated
\* as the type of the loader's model is a runtime_error
CheckMessage(instantiated) == IF instantiated THEN "ok" ELSE "runtime_error"

\* what the loader of a topic does with a message of an encoding that is not
\* the one of its model: the inertial, radar and scan loaders return nullptr;
\* the camera loader returns nullptr or has the message checked by
\* CheckMessage
UnpackIncompatible(tp) ==
    IF tp \in cfg.CameraTopics THEN {"nullptr", CheckMessage(FALSE)} ELSE {"nullptr"}

\* one turn of the loop on a message of an incompatible encoding: nothing is
\* appended for nullptr, and an exception of the loader leaves LoadCalibData
ReadIncompatible ==
    /\ pc = "reading"
    /\ bag.opened
    /\ \E tp \in cfg.IMUTopics \cup cfg.RadarTopics \cup cfg.LiDARTopics \cup cfg.CameraTopics :
        \E out \in UnpackIncompatible(tp) :
            IF out = "nullptr"
            THEN unpacked' = "nullptr" /\ pc' = pc /\ status' = status
            ELSE unpacked' = out /\ pc' = "exception" /\ status' = "Wrong sensor model"
    /\ UNCHANGED <<cfg, bag, view, imuMes, radarMes, lidarMes, camMes, oldRadarMes,
                   rawStartTimestamp, rawEndTimestamp, alignedStartTimestamp,
                   alignedEndTimestamp>>
    /\ UNCHANGED <<solverVars, stageVars>>

\* CheckTopicExists: a configured topic without any message is fatal
CheckTopicExists(tp, mesMap) == tp \in DOMAIN mesMap /\ mesMap[tp] # <<>>

CheckTopics ==
    /\ pc = "reading"
    /\ IF /\ \A tp \in cfg.IMUTopics : CheckTopicExists(tp, imuMes)
          /\ \A tp \in cfg.RadarTopics : CheckTopicExists(tp, radarMes)
          /\ \A tp \in cfg.CameraTopics : CheckTopicExists(tp, camMes)
          /\ \A tp \in cfg.LiDARTopics : CheckTopicExists(tp, lidarMes)
       THEN pc' = "checked" /\ status' = ""
       ELSE pc' = "fatal" /\ status' = "there is no data in topic"
    /\ unpacked' = "none"
    /\ UNCHANGED <<cfg, bag, view, imuMes, radarMes, lidarMes, camMes, oldRadarMes,
                   rawStartTimestamp, rawEndTimestamp, alignedStartTimestamp,
                   alignedEndTimestamp>>
    /\ UNCHANGED <<solverVars, stageVars>>

\* ---------------------------------------------------------------------------
\* LoadCalibData: regrouping the single-target radar readings
\* ---------------------------------------------------------------------------
\* t += target->GetTimestamp() / targets.size(), over the targets
RECURSIVE AverageTime(_, _)
AverageTime(targets, i) ==
    IF i > Len(targets) THEN 0
    ELSE (targets[i] \div Len(targets)) + AverageTime(targets, i + 1)

\* the test that keeps a reading in the open group
InOpenGroup(targets, item) ==
    IF targets = <<>> THEN TRUE ELSE Abs(targets[1] - item.ts) < RadarMergeGap

\* variant: a closed group is put in front of the arrays built so far
RECURSIVE MergeTargets_Prepend(_, _, _, _)
MergeTargets_Prepend(mes, i, targets, arrays) ==
    IF i > Len(mes) THEN arrays
    ELSE IF InOpenGroup(targets, mes[i])
         THEN MergeTargets_Prepend(mes, i + 1, Append(targets, mes[i].targets[1]), arrays)
         ELSE MergeTargets_Prepend(mes, i + 1, <<mes[i].targets[1]>>,
                  <<RadarTargetArray(AverageTime(targets, 1), targets)>> \o arrays)

\* the loop over the readings of one topic: the arrays built from mes[i..]
\* given the open group and the arrays built so far
RECURSIVE MergeTargets(_, _, _, _)
MergeTargets(mes, i, targets, arrays) ==
    IF i > Len(mes) THEN arrays
    ELSE IF InOpenGroup(targets, mes[i])
         THEN MergeTargets(mes, i + 1, Append(targets, mes[i].targets[1]), arrays)
         ELSE MergeTargets(mes, i + 1, <<mes[i].targets[1]>>,
                           Append(arrays, RadarTargetArray(AverageTime(targets, 1), targets)))

RegroupedRadarMes(old) ==
    [tp \in DOMAIN old |->
        IF NeedsRegrouping(tp) THEN MergeTargets(old[tp], 1, <<>>, <<>>) ELSE old[tp]]

\* some stream is empty: OutputDataStatus and the max-of-firsts computation
\* call front() on an empty vector
SomeStreamEmpty(imu, radar, lidar, cam) ==
    \/ \E tp \in DOMAIN imu : imu[tp] = <<>>
    \/ \E tp \in DOMAIN radar : radar[tp] = <<>>
    \/ \E tp \in DOMAIN lidar : lidar[tp] = <<>>
    \/ \E tp \in DOMAIN cam : cam[tp] = <<>>

\* the outcomes of OutputDataStatus: it returns, or, when it reads the front
\* of an empty stream (undefined behaviour), it may also crash
OutputDataStatus(imu, radar, lidar, cam) ==
    IF SomeStreamEmpty(imu, radar, lidar, cam) THEN {"returns", "crashes"} ELSE {"returns"}

RegroupRadar ==
    /\ pc = "checked"
    /\ oldRadarMes' = radarMes
    /\ radarMes' = RegroupedRadarMes(radarMes)
    /\ \E out \in OutputDataStatus(imuMes, RegroupedRadarMes(radarMes), lidarMes, camMes) :
        pc' = IF out = "crashes" THEN "crashed" ELSE "regrouped"
    /\ UNCHANGED <<cfg, bag, view, status, unpacked, imuMes, lidarMes, camMes,
                   rawStartTimestamp, rawEndTimestamp, alignedStartTimestamp,
                   alignedEndTimestamp>>
    /\ UNCHANGED <<solverVars, stageVars>>

\* ---------------------------------------------------------------------------
\* AdjustCalibDataSequence
\* ---------------------------------------------------------------------------
SetMax(S) == CHOOSE x \in S : \A y \in S : y <= x
SetMin(S) == CHOOSE x \in S : \A y \in S : x <= y

\* front()->GetTimestamp() and back()->GetTimestamp(); on an empty stream the
\* read is undefined and yields the arbitrary value g
FrontTime(seq, g) == IF seq = <<>> THEN g ELSE seq[1].ts
BackTime(seq, g) == IF seq = <<>> THEN g ELSE seq[Len(seq)].ts

\* variant: min_element where the start of the window needs max_element
MaxOfFirsts_MinElement(mesMap, g) == SetMin({FrontTime(mesMap[tp], g) : tp \in DOMAIN mesMap})

\* max_element by first timestamp, min_element by last timestamp
MaxOfFirsts(mesMap, g) == SetMax({FrontTime(mesMap[tp], g) : tp \in DOMAIN mesMap})
MinOfLasts(mesMap, g) == SetMin({BackTime(mesMap[tp], g) : tp \in DOMAIN mesMap})

\* the raw window: the inertial streams, tightened by every integrated kind
RawStart(imu, radar, lidar, cam, g) ==
    LET t0 == MaxOfFirsts(imu, g)
        t1 == IF IsRadarIntegrated THEN Max(t0, MaxOfFirsts(radar, g)) ELSE t0
        t2 == IF IsLiDARIntegrated THEN Max(t1, MaxOfFirsts(lidar, g)) ELSE t1
    IN  IF IsCameraIntegrated THEN Max(t2, MaxOfFirsts(cam, g)) ELSE t2

RawEnd(imu, radar, lidar, cam, g) ==
    LET t0 == MinOfLasts(imu, g)
        t1 == IF IsRadarIntegrated THEN Min(t0, MinOfLasts(radar, g)) ELSE t0
        t2 == IF IsLiDARIntegrated THEN Min(t1, MinOfLasts(lidar, g)) ELSE t1
    IN  IF IsCameraIntegrated THEN Min(t2, MinOfLasts(cam, g)) ELSE t2

\* variants: the padding applied with the wrong sign
CameraHeadPred_SignSlip(frame, rs) == frame.ts > rs - 2 * TimeOffsetPadding
RadarTailPred_SignSlip(frame, re) == frame.ts < re + 2 * TimeOffsetPadding

\* the predicates handed to EraseSeqHeadData and EraseSeqTailData
IMUHeadPred(frame, rs) == frame.ts > rs
IMUTailPred(frame, re) == frame.ts < re
RadarHeadPred(frame, rs) == frame.ts > rs + 2 * TimeOffsetPadding
RadarTailPred(frame, re) == frame.ts < re - 2 * TimeOffsetPadding
LiDARHeadPred(frame, rs) == frame.ts > rs + 2 * TimeOffsetPadding
LiDARTailPred(frame, re) == frame.ts < re - 2 * TimeOffsetPadding
CameraHeadPred(frame, rs) == frame.ts > rs + 2 * TimeOffsetPadding
CameraTailPred(frame, re) == frame.ts < re - 2 * TimeOffsetPadding

HeadPred(kind, frame, rs) ==
    CASE kind = "imu" -> IMUHeadPred(frame, rs)
      [] kind = "radar" -> RadarHeadPred(frame, rs)
      [] kind = "lidar" -> LiDARHeadPred(frame, rs)
      [] kind = "camera" -> CameraHeadPred(frame, rs)

TailPred(kind, frame, re) ==
    CASE kind = "imu" -> IMUTailPred(frame, re)
      [] kind = "radar" -> RadarTailPred(frame, re)
      [] kind = "lidar" -> LiDARTailPred(frame, re)
      [] kind = "camera" -> CameraTailPred(frame, re)

\* EraseSeqHeadData: erase what precedes the first frame the predicate accepts;
\* no such frame is a fatal failure and leaves the stream as it is
EraseSeqHeadData(seq, kind, rs) ==
    LET hits == {i \in 1..Len(seq) : HeadPred(kind, seq[i], rs)}
    IN  IF hits = {} THEN [found |-> FALSE, seq |-> seq]
        ELSE [found |-> TRUE, seq |-> SubSeq(seq, SetMin(hits), Len(seq))]

\* EraseSeqTailData: erase what follows the last frame the predicate accepts
EraseSeqTailData(seq, kind, re) ==
    LET hits == {i \in 1..Len(seq) : TailPred(kind, seq[i], re)}
    IN  IF hits = {} THEN [found |-> FALSE, seq |-> seq]
        ELSE [found |-> TRUE, seq |-> SubSeq(seq, 1, SetMax(hits))]

\* one iteration of a trimming loop: head, then tail
TrimTopic(seq, kind, rs, re) ==
    LET h == EraseSeqHeadData(seq, kind, rs)
        t == EraseSeqTailData(h.seq, kind, re)
    IN  IF h.found THEN [ok |-> t.found, seq |-> t.seq] ELSE [ok |-> FALSE, seq |-> seq]

\* a trimming loop over the topics of one kind, in the order of the map; the
\* first failure throws and leaves the later topics untouched
RECURSIVE TrimTopics(_, _, _, _, _)
TrimTopics(mesMap, todo, kind, rs, re) ==
    IF todo = {} THEN [ok |-> TRUE, mes |-> mesMap]
    ELSE LET tp == CHOOSE x \in todo : \A y \in todo : TopicRank(x) <= TopicRank(y)
             r == TrimTopic(mesMap[tp], kind, rs, re)
             m == [mesMap EXCEPT ![tp] = r.seq]
         IN  IF r.ok THEN TrimTopics(m, todo \ {tp}, kind, rs, re)
             ELSE [ok |-> FALSE, mes |-> m]

ErrorMsg(kind) ==
    CASE kind = "imu" -> "the imu data is invalid, there is no intersection."
      [] kind = "radar" -> "the radar data is invalid, there is no intersection between imu data and radar data."
      [] kind = "lidar" -> "the lidar data is invalid, there is no intersection between imu data and lidar data."
      [] kind = "camera" -> "the camera data is invalid, there is no intersection between imu data and lidar data."

\* the values an undefined read of a timestamp may yield
GarbageTimes == {0, MaxTick * Unit}

AdjustCalibDataSequence ==
    /\ pc = "regrouped"
    /\ \E g \in IF SomeStreamEmpty(imuMes, radarMes, lidarMes, camMes)
                THEN GarbageTimes ELSE {0},
          out \in OutputDataStatus(imuMes, radarMes, lidarMes, camMes) :
        LET rs == RawStart(imuMes, radarMes, lidarMes, camMes, g)
            re == RawEnd(imuMes, radarMes, lidarMes, camMes, g)
            i == TrimTopics(imuMes, cfg.IMUTopics, "imu", rs, re)
            r == IF i.ok THEN TrimTopics(radarMes, cfg.RadarTopics, "radar", rs, re)
                 ELSE [ok |-> FALSE, mes |-> radarMes]
            l == IF r.ok THEN TrimTopics(lidarMes, cfg.LiDARTopics, "lidar", rs, re)
                 ELSE [ok |-> FALSE, mes |-> lidarMes]
            c == IF l.ok THEN TrimTopics(camMes, cfg.CameraTopics, "camera", rs, re)
                 ELSE [ok |-> FALSE, mes |-> camMes]
            failed == IF ~i.ok THEN "imu" ELSE IF ~r.ok THEN "radar"
                      ELSE IF ~l.ok THEN "lidar" ELSE "camera"
        IN  IF out = "crashes"
            THEN /\ pc' = "crashed"
                 /\ UNCHANGED <<status, imuMes, radarMes, lidarMes, camMes,
                                rawStartTimestamp, rawEndTimestamp>>
            ELSE /\ rawStartTimestamp' = rs
                 /\ rawEndTimestamp' = re
                 /\ imuMes' = i.mes
                 /\ radarMes' = r.mes
                 /\ lidarMes' = l.mes
                 /\ camMes' = c.mes
                 /\ IF c.ok THEN pc' = "adjusted" /\ status' = ""
                    ELSE pc' = "fatal" /\ status' = ErrorMsg(failed)
    /\ UNCHANGED <<cfg, bag, view, unpacked, oldRadarMes, alignedStartTimestamp, alignedEndTimestamp>>
    /\ UNCHANGED <<solverVars, stageVars>>

\* ---------------------------------------------------------------------------
\* AlignTimestamp
\* ---------------------------------------------------------------------------
ShiftTimes(times, d) == [k \in 1..Len(times) |-> times[k] - d]

\* variant: the array is re-based once more for each of its targets
AlignRadar_PerTarget(frame, d) ==
    [frame EXCEPT !.ts = @ - d * (1 + Len(frame.targets)),
                  !.nSet = @ + 1 + Len(frame.targets),
                  !.targets = ShiftTimes(@, d)]

\* frame->SetTimestamp(frame->GetTimestamp() - _rawStartTimestamp), and the
\* same for the targets of an array and the points of a scan
AlignIMU(frame, d) == [frame EXCEPT !.ts = @ - d, !.nSet = @ + 1]
AlignRadar(frame, d) ==
    [frame EXCEPT !.ts = @ - d, !.nSet = @ + 1, !.targets = ShiftTimes(@, d)]
AlignLiDAR(frame, d) == [frame EXCEPT !.ts = @ - d, !.nSet = @ + 1, !.scan = ShiftTimes(@, d)]
AlignCamera(frame, d) == [frame EXCEPT !.ts = @ - d, !.nSet = @ + 1]

AlignTimestamp ==
    /\ pc = "adjusted"
    /\ alignedStartTimestamp' = 0
    /\ alignedEndTimestamp' = rawEndTimestamp - rawStartTimestamp
    /\ imuMes' = [tp \in DOMAIN imuMes |->
                    [k \in 1..Len(imuMes[tp]) |-> AlignIMU(imuMes[tp][k], rawStartTimestamp)]]
    /\ radarMes' = [tp \in DOMAIN radarMes |->
                    [k \in 1..Len(radarMes[tp]) |-> AlignRadar(radarMes[tp][k], rawStartTimestamp)]]
    /\ lidarMes' = [tp \in DOMAIN lidarMes |->
                    [k \in 1..Len(lidarMes[tp]) |-> AlignLiDAR(lidarMes[tp][k], rawStartTimestamp)]]
    /\ camMes' = [tp \in DOMAIN camMes |->
                    [k \in 1..Len(camMes[tp]) |-> AlignCamera(camMes[tp][k], rawStartTimestamp)]]
    /\ pc' = "aligned"
    /\ UNCHANGED <<cfg, bag, view, status, unpacked, oldRadarMes, rawStartTimestamp,
                   rawEndTimestamp>>
    /\ UNCHANGED <<solverVars, stageVars>>

\* ---------------------------------------------------------------------------
\* time access
\* ---------------------------------------------------------------------------
GetRawStartTimestamp == rawStartTimestamp
GetRawEndTimestamp == rawEndTimestamp
GetAlignedStartTimestamp == alignedStartTimestamp
GetAlignedEndTimestamp == alignedEndTimestamp
GetCalibStartTimestamp == alignedStartTimestamp + TimeOffsetPadding
\* variant: the padding added to the end instead of subtracted
GetCalibEndTimestamp_SignSlip == alignedEndTimestamp + TimeOffsetPadding
GetCalibEndTimestamp == alignedEndTimestamp - TimeOffsetPadding

\* ---------------------------------------------------------------------------
\* CalibSolver: output directories, iteration callbacks, shutdown
\* ---------------------------------------------------------------------------
\* a directory exists, or is absent and can be created, or is absent and
\* cannot be created
DirStates == {"exists", "creatable", "blocked"}

\* std::filesystem::create_directories: TRUE when it has created the directory
CreateDirectories(d) ==
    IF d = "creatable" THEN [created |-> TRUE, dir |-> "exists"]
    ELSE [created |-> FALSE, dir |-> d]

\* std::filesystem::remove_all of a directory that exists
RemoveAll(d) == IF d = "exists" THEN "creatable" ELSE d

\* Configor::DataStream::CreateImageStoreFolder: the path of the image folder
\* of a topic, which it creates; no path when that fails
CreateImageStoreFolder(d) ==
    LET c == CreateDirectories(RemoveAll(d))
    IN  [path |-> c.created, dir |-> c.dir]

\* the constructor of CeresDebugCallBack: the epoch directory is emptied and
\* created again, and the csv file is opened in it
NewCeresDebugCallBack(d) ==
    LET c == CreateDirectories(RemoveAll(d))
    IN  IF ~c.created
        THEN [dir |-> c.dir, warnings |-> {"create directory failed: epoch"},
              cb |-> [idx |-> 0, iterInfoFile |-> FALSE], written |-> {}]
        ELSE [dir |-> c.dir, warnings |-> {},
              cb |-> [idx |-> 0, iterInfoFile |-> TRUE], written |-> {"epoch_info.csv"}]

\* the names SaveStageCalibParam is called with
StageDescs == {"stage_1"}

\* the iteration summaries ceres hands to the callbacks
Summaries == [cost : {0, 1}, step_is_successful : BOOLEAN]

\* variant: the solver is told to stop when the snapshot cannot be written
CeresDebugCallBack_AbortWithoutDir(d, cb, summary) ==
    IF d = "exists"
    THEN [cb |-> [cb EXCEPT !.idx = @ + 1], written |-> {"ikalibr_param"},
          return |-> "SOLVER_CONTINUE"]
    ELSE [cb |-> cb, written |-> {}, return |-> "SOLVER_ABORT"]

\* CeresDebugCallBack::operator()
CeresDebugCallBack(d, cb, summary) ==
    IF d = "exists"
    THEN [cb |-> [cb EXCEPT !.idx = @ + 1], written |-> {"ikalibr_param"},
          return |-> "SOLVER_CONTINUE"]
    ELSE [cb |-> cb, written |-> {}, return |-> "SOLVER_CONTINUE"]

\* CeresViewerCallBack::operator()
CeresViewerCallBack(summary) == [return |-> "SOLVER_CONTINUE"]

\* SaveStageCalibParam: the parameters are saved unless the stage directory is
\* absent and cannot be created
SaveStageCalibParam(d, desc) ==
    LET c == IF d = "exists" THEN [created |-> FALSE, dir |-> d] ELSE CreateDirectories(d)
    IN  IF d # "exists" /\ ~c.created
        THEN [out |-> "returned", dir |-> c.dir,
              warnings |-> {"create directory failed: stage"}, written |-> {}]
        ELSE [out |-> "returned", dir |-> c.dir, warnings |-> {}, written |-> {desc}]

\* the file name StoreImagesForSfM gives the image of a frame
ImageName(id) == <<id, ".jpg">>

\* Configor::DataStream::CreateSfMWorkspace: the path of the workspace, which
\* it creates when it is absent; no path when that fails
CreateSfMWorkspace(workspace) ==
    IF workspace = "blocked" THEN [path |-> FALSE, workspace |-> workspace]
    ELSE [path |-> TRUE, workspace |-> "exists"]

\* the workspace StoreImagesForSfM leaves when it returns: the index of the
\* frames it exported
ExportedWorkspace(ws, frames) ==
    [exported |-> TRUE, hasInfo |-> TRUE, workspace |-> "exists",
     hasCameras |-> ws.hasCameras, hasImages |-> ws.hasImages, hasPoints |-> ws.hasPoints,
     info |-> [id \in {frames[k].id : k \in 1..Len(frames)} |-> ImageName(id)]]

\* StoreImagesForSfM: the images and the index of one camera topic
StoreImagesForSfM(topic, images, ws) ==
    LET path == CreateImageStoreFolder(images)
        wsPath == CreateSfMWorkspace(ws.workspace)
    IN  IF ~path.path
        THEN [out |-> "CRITICAL", status |-> "can not create path for image storing",
              images |-> path.dir, ws |-> ws, written |-> {}]
        ELSE IF ~wsPath.path
        THEN [out |-> "CRITICAL", status |-> "can not create workspace for SfM",
              images |-> path.dir, ws |-> ws, written |-> {"images"}]
        ELSE [out |-> "returned", status |-> "", images |-> path.dir,
              ws |-> ExportedWorkspace(ws, camMes[topic]),
              written |-> {"images", "sfm-command-line.txt", "matches.txt", "info"}]

\* ---------------------------------------------------------------------------
\* CalibSolver: the trajectory splines and the pose queries
\* ---------------------------------------------------------------------------
\* every sensor mix with one inertial topic, for the solver
SolverMixes ==
    { MkConfig({"imu0"}, r, l, c) :
        r \in {{}, {"rad_arr"}}, l \in {{}, {"lid0"}}, c \in {{}, {"cam0"}} }

\* how far the last knot interval of a spline may reach beyond the end time
\* it was created for (less than one knot distance)
KnotOvershoots == {0, Unit}

\* the time offsets the estimator keeps within the padding
TimeOffsets == {0 - TimeOffsetPadding, 0, TimeOffsetPadding}

\* the sensor-local times the pose queries are called with
QueryTimes == {k * TimeOffsetPadding : k \in (0 - 1)..(4 * LoadedTick + 3)}

\* the topics the pose queries are called with
QueryTopics == {"rad_arr", "lid0", "cam0"}

\* variant: the radar tested before the scan and camera sensors
GetScaleType_RadarFirst ==
    IF IsRadarIntegrated THEN "LIN_VEL_SPLINE"
    ELSE IF IsLiDARIntegrated \/ IsCameraIntegrated THEN "LIN_POS_SPLINE"
    ELSE "LIN_ACCE_SPLINE"

GetScaleType ==
    IF IsLiDARIntegrated \/ IsCameraIntegrated THEN "LIN_POS_SPLINE"
    ELSE IF IsRadarIntegrated THEN "LIN_VEL_SPLINE"
    ELSE "LIN_ACCE_SPLINE"

\* the two splines of the bundle: both start at st and cover [st, et]
CreateSplineBundle(st, et, so3Over, scaleOver) ==
    [created |-> TRUE,
     so3 |-> [MinTime |-> st, MaxTime |-> et + so3Over],
     scale |-> [MinTime |-> st, MaxTime |-> et + scaleOver]]

TimeStampInRange(spline, t) == spline.MinTime <= t /\ t <= spline.MaxTime

\* Sophus::SE3d(so3Spline.Evaluate(timeByBr), posSpline.Evaluate(timeByBr))
SE3(timeByBr) == <<[so3At |-> timeByBr, posAt |-> timeByBr]>>

\* variant: no pose only when the body time is outside both splines
PoseAtBodyTime_BothOutside(timeByBr) ==
    IF ~TimeStampInRange(splines.so3, timeByBr) /\ ~TimeStampInRange(splines.scale, timeByBr)
    THEN [result |-> "nullopt"]
    ELSE [result |-> "pose", pose |-> SE3(timeByBr)]

\* the range test of a pose query and the body pose it builds
PoseAtBodyTime(timeByBr) ==
    IF ~TimeStampInRange(splines.so3, timeByBr) \/ ~TimeStampInRange(splines.scale, timeByBr)
    THEN [result |-> "nullopt"]
    ELSE [result |-> "pose", pose |-> SE3(timeByBr)]

\* return curBrToW * SE3_XToBr(topic)
TimesExtri(curBrToW, extri) ==
    IF curBrToW.result = "pose" THEN [curBrToW EXCEPT !.pose = Mul(@, extri)] ELSE curBrToW

CurBrToW(timeByBr) ==
    IF GetScaleType # "LIN_POS_SPLINE"
    THEN [result |-> "CRITICAL"]
    ELSE PoseAtBodyTime(timeByBr)

\* TO_LkToBr.at(topic) throws std::out_of_range for a topic that is no LiDAR
CurLkToW(timeByLk, topic) ==
    IF GetScaleType # "LIN_POS_SPLINE"
    THEN [result |-> "CRITICAL"]
    ELSE IF topic \notin cfg.LiDARTopics THEN [result |-> "out_of_range"]
    ELSE TimesExtri(PoseAtBodyTime(timeByLk + TO[topic]), EXTRI[topic])

\* variant: the range test made on the time of the camera
CurCmToW_SensorTime(timeByCm, topic) ==
    IF GetScaleType # "LIN_POS_SPLINE"
    THEN [result |-> "CRITICAL"]
    ELSE IF topic \notin cfg.CameraTopics THEN [result |-> "out_of_range"]
    ELSE IF PoseAtBodyTime(timeByCm).result = "nullopt" THEN [result |-> "nullopt"]
    ELSE [result |-> "pose", pose |-> Mul(SE3(timeByCm + TO[topic]), EXTRI[topic])]

CurCmToW(timeByCm, topic) ==
    IF GetScaleType # "LIN_POS_SPLINE"
    THEN [result |-> "CRITICAL"]
    ELSE IF topic \notin cfg.CameraTopics THEN [result |-> "out_of_range"]
    ELSE TimesExtri(PoseAtBodyTime(timeByCm + TO[topic]), EXTRI[topic])

\* variant: the range test made before the test of the scale type
CurRjToW_RangeFirst(timeByRj, topic) ==
    IF topic \in cfg.RadarTopics /\ PoseAtBodyTime(timeByRj + TO[topic]).result = "nullopt"
    THEN [result |-> "nullopt"]
    ELSE IF GetScaleType # "LIN_POS_SPLINE" THEN [result |-> "CRITICAL"]
    ELSE IF topic \notin cfg.RadarTopics THEN [result |-> "out_of_range"]
    ELSE TimesExtri(PoseAtBodyTime(timeByRj + TO[topic]), EXTRI[topic])

CurRjToW(timeByRj, topic) ==
    IF GetScaleType # "LIN_POS_SPLINE"
    THEN [result |-> "CRITICAL"]
    ELSE IF topic \notin cfg.RadarTopics THEN [result |-> "out_of_range"]
    ELSE TimesExtri(PoseAtBodyTime(timeByRj + TO[topic]), EXTRI[topic])

\* the constructor: the spline bundle over the calibration window
CreateSolver ==
    /\ pc = "aligned"
    /\ ~splines.created
    /\ life = "unconstructed"
    /\ \E so3Over \in KnotOvershoots, scaleOver \in KnotOvershoots :
        splines' = CreateSplineBundle(GetCalibStartTimestamp, GetCalibEndTimestamp,
                                      so3Over, scaleOver)
    /\ viewer' = [active |-> TRUE, quit |-> FALSE]
    /\ IF paramInEachIter
       THEN LET d == NewCeresDebugCallBack(dirs.epoch)
            IN  /\ ceres' = [ceres EXCEPT
                                !.callbacks = <<"CeresViewerCallBack", "CeresDebugCallBack">>]
                /\ debugCb' = d.cb
                /\ dirs' = [dirs EXCEPT !.epoch = d.dir]
                /\ warnings' = warnings \cup d.warnings
                /\ written' = written \cup d.written
                /\ runRet' = [fn |-> "CeresDebugCallBack", dirFailed |-> dirs.epoch = "blocked",
                              out |-> "returned", warned |-> d.warnings # {}]
       ELSE /\ ceres' = [ceres EXCEPT !.callbacks = <<"CeresViewerCallBack">>]
            /\ runRet' = [fn |-> "CalibSolver", dirFailed |-> FALSE, out |-> "returned",
                          warned |-> FALSE]
            /\ UNCHANGED <<debugCb, dirs, warnings, written>>
    /\ life' = "alive"
    /\ UNCHANGED <<dataVars, TO, EXTRI, scaleTypes, ret, bridgeVars, gravityVars, paramInEachIter,
                   solveFinished>>

CallGetScaleType ==
    /\ pc = "aligned"
    /\ ret' = [fn |-> "GetScaleType", out |-> [result |-> GetScaleType]]
    /\ scaleTypes' = scaleTypes \cup {GetScaleType}
    /\ UNCHANGED <<stageVars, dataVars, splines, TO, EXTRI>>

CallCurBrToW ==
    /\ splines.created
    /\ \E t \in QueryTimes :
        ret' = [fn |-> "CurBrToW", t |-> t, topic |-> "", out |-> CurBrToW(t)]
    /\ UNCHANGED <<stageVars, dataVars, splines, TO, EXTRI, scaleTypes>>

CallCurLkToW ==
    /\ splines.created
    /\ \E t \in QueryTimes, topic \in QueryTopics :
        ret' = [fn |-> "CurLkToW", t |-> t, topic |-> topic, out |-> CurLkToW(t, topic)]
    /\ UNCHANGED <<stageVars, dataVars, splines, TO, EXTRI, scaleTypes>>

CallCurCmToW ==
    /\ splines.created
    /\ \E t \in QueryTimes, topic \in QueryTopics :
        ret' = [fn |-> "CurCmToW", t |-> t, topic |-> topic, out |-> CurCmToW(t, topic)]
    /\ UNCHANGED <<stageVars, dataVars, splines, TO, EXTRI, scaleTypes>>

CallCurRjToW ==
    /\ splines.created
    /\ \E t \in QueryTimes, topic \in QueryTopics :
        ret' = [fn |-> "CurRjToW", t |-> t, topic |-> topic, out |-> CurRjToW(t, topic)]
    /\ UNCHANGED <<stageVars, dataVars, splines, TO, EXTRI, scaleTypes>>

\* the state LoadCalibData leaves for a log in which every configured topic
\* has messages at the ticks 0, LoadedTick and 2 * LoadedTick: that is the raw
\* window, and every stream keeps its frame at LoadedTick
LoadedFrame(tp, t) ==
    CASE tp \in {"imu0", "imu1"} -> AlignIMU(IMUFrame(t), 0)
      [] tp \in {"rad_awr", "rad_arr"} -> AlignRadar(RadarTargetArray(t, <<t>>), 0)
      [] tp = "lid0" -> AlignLiDAR(LiDARFrame(t), 0)
      [] tp = "cam0" -> AlignCamera(CameraFrame(t), 0)

LoadedReadings(tp) ==
    [k \in 1..3 |-> LoadedFrame(tp, (k - 1) * LoadedTick * Unit)]

InitSolver ==
    /\ cfg \in SolverMixes
    /\ bag = OpenedBag
    /\ view = QueriedView(WholeLog)
    /\ pc = "aligned"
    /\ unpacked = "none"
    /\ status = ""
    /\ imuMes = [tp \in cfg.IMUTopics |-> <<LoadedFrame(tp, LoadedTick * Unit)>>]
    /\ radarMes = [tp \in cfg.RadarTopics |-> <<LoadedFrame(tp, LoadedTick * Unit)>>]
    /\ lidarMes = [tp \in cfg.LiDARTopics |-> <<LoadedFrame(tp, LoadedTick * Unit)>>]
    /\ camMes = [tp \in cfg.CameraTopics |-> <<LoadedFrame(tp, LoadedTick * Unit)>>]
    /\ oldRadarMes = [tp \in cfg.RadarTopics |-> LoadedReadings(tp)]
    /\ rawStartTimestamp = 0
    /\ rawEndTimestamp = 2 * LoadedTick * Unit
    /\ alignedStartTimestamp = 0
    /\ alignedEndTimestamp = 2 * LoadedTick * Unit
    /\ splines = NoSplines
    /\ TO \in [cfg.RadarTopics \cup cfg.LiDARTopics \cup cfg.CameraTopics -> TimeOffsets]
    /\ EXTRI \in {[tp \in DOMAIN TO |-> IdentitySE3], [tp \in DOMAIN TO |-> EstimatedSE3(tp)]}
    /\ scaleTypes = {}
    /\ ret = [fn |-> "none"]
    /\ BridgeIdle
    /\ GravityIdle
    /\ RunIdle

NextSolver ==
    \/ CreateSolver
    \/ CallGetScaleType
    \/ CallCurBrToW
    \/ CallCurLkToW
    \/ CallCurCmToW
    \/ CallCurRjToW

SpecSolver == InitSolver /\ [][NextSolver]_vars

\* ---------------------------------------------------------------------------
\* the reconstruction bridge: TryLoadSfMData
\* ---------------------------------------------------------------------------
\* the image ids, feature indexes and point ids of the reconstruction
ImageIds == 1..MaxImages
FeatureIdxs == {1, 2}
PointIds == 1..MaxPoints
\* the reprojection errors of the reconstructed points
Errors == 0..MaxError
\* the thresholds TryLoadSfMData is called with
ErrorThds == {1}
TrackLenThds == {1, 2}

\* the ticks of the camera frames that StoreImagesForSfM exported
ExportedTicks == {2, 3, 4}
\* the frame ids are CameraId of the raw timestamps
ExportedIds == {CameraId(k * Unit) : k \in ExportedTicks}

\* the name of an image that StoreImagesForSfM did not export
ForeignName == <<0, ".png">>

\* ImagesInfo::GetImagesNameToIdx: the index of StoreImagesForSfM, inverted
GetImagesNameToIdx(images) ==
    [n \in {images[id] : id \in DOMAIN images} |->
        CHOOSE id \in DOMAIN images : images[id] = n]

\* the ids of the camera frames the data manager holds
OurIdxToCamFrame(frames) ==
    [id \in {frames[k].id : k \in 1..Len(frames)} |->
        frames[CHOOSE k \in 1..Len(frames) : frames[k].id = id]]

\* variant: the pose of an image is stored under the id the reconstruction
\* gave the image
PoseKey_IdFromColmap(IdFromColmap, viewId) == IdFromColmap

\* const auto &poseId = viewId
PoseKey(IdFromColmap, viewId) == viewId

\* std::map::insert: the entry of a key that is there already is kept
Insert(map, key, value) == IF key \in DOMAIN map THEN map ELSE map @@ (key :> value)

\* the loop over the reconstructed images, in the order of their ids: a name
\* that the index does not hold makes nameToOurIdx.at throw
RECURSIVE LoadViews(_, _, _, _)
LoadViews(todo, nameToOurIdx, ourIdxToCamFrame, acc) ==
    IF todo = {} THEN acc
    ELSE LET c == SetMin(todo)
             image == sfm.images[c]
         IN  IF image.name \notin DOMAIN nameToOurIdx
             THEN [acc EXCEPT !.ok = FALSE]
             ELSE LET viewId == nameToOurIdx[image.name]
                      poseId == PoseKey(c, viewId)
                  IN  IF viewId \notin DOMAIN ourIdxToCamFrame
                      THEN LoadViews(todo \ {c}, nameToOurIdx, ourIdxToCamFrame, acc)
                      ELSE LoadViews(todo \ {c}, nameToOurIdx, ourIdxToCamFrame,
                               [acc EXCEPT
                                   !.views = Insert(@, viewId,
                                       [timestamp |-> ourIdxToCamFrame[viewId].ts,
                                        poseId |-> poseId]),
                                   !.poses = Insert(@, poseId, [WorldToImgOf |-> c])])

\* the loop over the track of one point: the observations it inserts
RECURSIVE LoadObs(_, _, _, _, _, _)
LoadObs(track, i, pt3dId, nameToOurIdx, views, acc) ==
    IF i > Len(track) THEN acc
    ELSE LET tr == track[i]
             img == sfm.images[tr.image_id]
             pt2d == img.points2D[tr.point2D_idx]
         IN  IF pt3dId # pt2d
             THEN LoadObs(track, i + 1, pt3dId, nameToOurIdx, views,
                          [acc EXCEPT !.conflict = TRUE])
             ELSE IF img.name \notin DOMAIN nameToOurIdx
             THEN [acc EXCEPT !.ok = FALSE]
             ELSE LET viewId == nameToOurIdx[img.name]
                  IN  IF viewId \notin DOMAIN views \/ viewId \in DOMAIN acc.obs
                      THEN LoadObs(track, i + 1, pt3dId, nameToOurIdx, views, acc)
                      ELSE LoadObs(track, i + 1, pt3dId, nameToOurIdx, views,
                               [acc EXCEPT !.obs = @ @@ (viewId :> tr.point2D_idx)])

\* variant: a point is dropped only when it fails both conditions
IsBadLandmark_Both(pt3d, errorThd, trackLenThd) ==
    pt3d.error > errorThd /\ Len(pt3d.track) < trackLenThd

\* the filter of bad landmarks
IsBadLandmark(pt3d, errorThd, trackLenThd) ==
    pt3d.error > errorThd \/ Len(pt3d.track) < trackLenThd

\* the loop over the reconstructed points, in the order of their ids
RECURSIVE LoadStructure(_, _, _, _, _, _)
LoadStructure(todo, errorThd, trackLenThd, nameToOurIdx, views, acc) ==
    IF todo = {} THEN acc
    ELSE LET pt3dId == SetMin(todo)
             pt3d == sfm.points3D[pt3dId]
             lm == LoadObs(pt3d.track, 1, pt3dId, nameToOurIdx, views,
                           [ok |-> TRUE, conflict |-> FALSE, obs |-> <<>>])
             warned == [acc EXCEPT !.conflict = @ \/ lm.conflict]
         IN  IF IsBadLandmark(pt3d, errorThd, trackLenThd)
             THEN LoadStructure(todo \ {pt3dId}, errorThd, trackLenThd, nameToOurIdx, views, acc)
             ELSE IF ~lm.ok
             THEN [warned EXCEPT !.ok = FALSE,
                                 !.structure = @ @@ (pt3dId :> [obs |-> lm.obs])]
             ELSE IF Cardinality(DOMAIN lm.obs) < trackLenThd
             THEN LoadStructure(todo \ {pt3dId}, errorThd, trackLenThd, nameToOurIdx, views,
                                warned)
             ELSE LoadStructure(todo \ {pt3dId}, errorThd, trackLenThd, nameToOurIdx, views,
                      [warned EXCEPT !.structure = @ @@ (pt3dId :> [obs |-> lm.obs])])

\* variant: a missing points file is not looked for
PointsFileMissing_Ignored(ws) == FALSE

\* std::filesystem::exists of the points file
PointsFileMissing(ws) == ~ws.hasPoints

Null(warning, workspace) ==
    [result |-> "nullptr", warnings |-> {warning}, workspace |-> workspace]

\* assert(cameras.size() == 1); camera = cameras.cbegin()->second: the
\* assertion aborts the process in a build that keeps assertions; a build
\* without them goes on with the first camera of several, and with none it
\* reads the end of the map, which crashes or yields whatever is there
CameraOutcomes(n) ==
    IF n = 1 THEN {"the_camera"}
    ELSE {"assert_abort"} \cup (IF n = 0 THEN {"crash", "garbage_camera"}
                                ELSE {"first_camera"})

TryLoadSfMData(topic, errorThd, trackLenThd, camera) ==
    LET sfmWsPath == CreateSfMWorkspace(sfm.workspace)
    IN  IF ~sfm.hasInfo THEN Null("info", sfm.workspace)
        ELSE IF ~sfmWsPath.path THEN Null("workspace", sfmWsPath.workspace)
        ELSE IF ~sfm.hasCameras THEN Null("cameras", sfmWsPath.workspace)
        ELSE IF ~sfm.hasImages THEN Null("images", sfmWsPath.workspace)
        ELSE IF PointsFileMissing(sfm) THEN Null("points", sfmWsPath.workspace)
        ELSE IF camera \in {"assert_abort", "crash"}
        THEN [result |-> "abort", warnings |-> {}, workspace |-> sfmWsPath.workspace]
        ELSE
        LET ourIdxToCamFrame == OurIdxToCamFrame(camMes[topic])
            nameToOurIdx == GetImagesNameToIdx(sfm.info)
            v == LoadViews(DOMAIN sfm.images, nameToOurIdx, ourIdxToCamFrame,
                           [ok |-> TRUE, views |-> <<>>, poses |-> <<>>])
            absent == \E k \in 1..Len(camMes[topic]) :
                          camMes[topic][k].id \notin DOMAIN v.views
            s == LoadStructure(DOMAIN sfm.points3D, errorThd, trackLenThd, nameToOurIdx,
                               v.views, [ok |-> TRUE, conflict |-> FALSE, structure |-> <<>>])
        IN  IF ~v.ok
            THEN [result |-> "out_of_range", warnings |-> {},
                  workspace |-> sfmWsPath.workspace]
            ELSE IF ~s.ok
            THEN [result |-> "out_of_range",
                  warnings |-> {w \in {"not_reconstructed"} : absent}
                                   \cup {w \in {"conflict"} : s.conflict},
                  workspace |-> sfmWsPath.workspace]
            ELSE [result |-> "veta",
                  warnings |-> {w \in {"not_reconstructed"} : absent}
                                   \cup {w \in {"conflict"} : s.conflict},
                  workspace |-> sfmWsPath.workspace,
                  veta |-> [loaded |-> TRUE, intrinsics |-> camera, views |-> v.views,
                            poses |-> v.poses, structure |-> s.structure]]

CallTryLoadSfMData ==
    /\ pc = "aligned"
    /\ sfmRet.fn = "none"
    /\ \E topic \in cfg.CameraTopics, errorThd \in ErrorThds, trackLenThd \in TrackLenThds,
          camera \in CameraOutcomes(sfm.cameras) :
        LET out == TryLoadSfMData(topic, errorThd, trackLenThd, camera)
        IN  /\ sfmRet' = [fn |-> "TryLoadSfMData", topic |-> topic, errorThd |-> errorThd,
                          trackLenThd |-> trackLenThd, out |-> out]
            /\ sfm' = [sfm EXCEPT !.workspace = out.workspace]
            /\ veta' = IF out.result = "veta" THEN out.veta ELSE veta
    /\ UNCHANGED <<dataVars, solverVars, gravityVars, runVars>>

\* ---------------------------------------------------------------------------
\* the workspaces TryLoadSfMData is called on
\* ---------------------------------------------------------------------------
\* the index StoreImagesForSfM wrote
ExportedInfo == [id \in ExportedIds |-> ImageName(id)]

\* the k-th exported frame id
RECURSIVE NthOf(_, _)
NthOf(S, k) == IF k = 1 THEN SetMin(S) ELSE NthOf(S \ {SetMin(S)}, k - 1)

\* image c shows the c-th exported frame (the later images the last frame
\* but one); at most one image has a name that was not exported
ImageNamings ==
    LET own == [c \in ImageIds |->
                   ImageName(NthOf(ExportedIds, Min(c, Cardinality(ExportedIds))))]
    IN  {own} \cup {[own EXCEPT ![c] = ForeignName] : c \in ImageIds}

\* feature j of every image shows point j; at most one feature refers to
\* another point
FeatureTables ==
    LET own == [c \in ImageIds |-> [j \in FeatureIdxs |-> j]]
    IN  {own} \cup {[own EXCEPT ![c][j] = 0] : c \in ImageIds, j \in FeatureIdxs}

TrackElements == {[image_id |-> c, point2D_idx |-> j] : c \in ImageIds, j \in FeatureIdxs}

TrackRank(e) == e.image_id * (Cardinality(FeatureIdxs) + 1) + e.point2D_idx

RECURSIVE TrackOf(_)
TrackOf(S) ==
    IF S = {} THEN <<>>
    ELSE LET e == CHOOSE x \in S : \A y \in S : TrackRank(x) <= TrackRank(y)
         IN  <<e>> \o TrackOf(S \ {e})

\* the tracks of the first point: any elements, at most MaxTrackLen of them
Tracks == {TrackOf(S) : S \in {T \in SUBSET TrackElements : Cardinality(T) <= MaxTrackLen}}

\* the later points: seen by feature 2 in every image, or in the first image
\* only, with the least or the largest error
LaterPoints ==
    {[error |-> e, track |-> TrackOf({x \in TrackElements : x.point2D_idx = 2 /\ x.image_id <= n})] :
        e \in {0, MaxError}, n \in {1, MaxImages}}

PointTables ==
    {[p \in PointIds |-> IF p = 1 THEN first ELSE later] :
        first \in [error : Errors, track : Tracks], later \in LaterPoints}

\* the workspaces: every expected file is there, or exactly one thing is missing
FullWorkspace(names, features, points) ==
    [exported |-> TRUE, hasInfo |-> TRUE, workspace |-> "exists", hasCameras |-> TRUE,
     hasImages |-> TRUE, hasPoints |-> TRUE, cameras |-> 1, info |-> ExportedInfo,
     images |-> [c \in ImageIds |-> [name |-> names[c], points2D |-> features[c]]],
     points3D |-> points]

SomeWorkspace ==
    FullWorkspace(CHOOSE n \in ImageNamings : \A c \in ImageIds : n[c] # ForeignName,
                  CHOOSE f \in FeatureTables : \A c \in ImageIds, j \in FeatureIdxs : f[c][j] = j,
                  CHOOSE p \in PointTables : TRUE)

LackingWorkspaces ==
    { [SomeWorkspace EXCEPT !.hasInfo = FALSE],
      [SomeWorkspace EXCEPT !.workspace = "blocked", !.hasCameras = FALSE,
                            !.hasImages = FALSE, !.hasPoints = FALSE],
      [SomeWorkspace EXCEPT !.workspace = "creatable", !.hasCameras = FALSE,
                            !.hasImages = FALSE, !.hasPoints = FALSE],
      [SomeWorkspace EXCEPT !.hasCameras = FALSE],
      [SomeWorkspace EXCEPT !.hasImages = FALSE],
      [SomeWorkspace EXCEPT !.hasPoints = FALSE] }

\* a cameras file that does not hold one camera
MiscountedWorkspaces ==
    {[SomeWorkspace EXCEPT !.cameras = n] : n \in (0..MaxCameras) \ {1}}

Workspaces ==
    {FullWorkspace(n, f, p) : n \in ImageNamings, f \in FeatureTables, p \in PointTables}
        \cup LackingWorkspaces \cup MiscountedWorkspaces

\* the camera frames the data manager holds: all the exported ones, or all
\* but one of them
HeldTickSets == {T \in SUBSET ExportedTicks : Cardinality(T) >= Cardinality(ExportedTicks) - 1}

RECURSIVE FramesAt(_, _)
FramesAt(tp, ticks) ==
    IF ticks = {} THEN <<>>
    ELSE <<LoadedFrame(tp, SetMin(ticks) * Unit)>> \o FramesAt(tp, ticks \ {SetMin(ticks)})

InitBridge ==
    /\ cfg = MkConfig({"imu0"}, {}, {}, {"cam0"})
    /\ bag = OpenedBag
    /\ view = QueriedView(WholeLog)
    /\ pc = "aligned"
    /\ unpacked = "none"
    /\ status = ""
    /\ imuMes = [tp \in cfg.IMUTopics |-> FramesAt(tp, ExportedTicks)]
    /\ radarMes = EmptyMap({})
    /\ lidarMes = EmptyMap({})
    /\ \E held \in HeldTickSets : camMes = [tp \in cfg.CameraTopics |-> FramesAt(tp, held)]
    /\ oldRadarMes = EmptyMap({})
    /\ rawStartTimestamp = 0
    /\ rawEndTimestamp = MaxTick * Unit
    /\ alignedStartTimestamp = 0
    /\ alignedEndTimestamp = MaxTick * Unit
    /\ splines = NoSplines
    /\ TO = [tp \in cfg.CameraTopics |-> 0]
    /\ EXTRI = [tp \in DOMAIN TO |-> IdentitySE3]
    /\ scaleTypes = {}
    /\ ret = [fn |-> "none"]
    /\ sfm \in Workspaces
    /\ veta = NoVeta
    /\ sfmRet = [fn |-> "none"]
    /\ GravityIdle
    /\ RunIdle

\* ---------------------------------------------------------------------------
\* the reconstruction bridge: DownsampleVeta
\* ---------------------------------------------------------------------------
\* the thresholds DownsampleVeta is called with
LmNumThds == 1..MaxPoints
ObvNumThds == 1..MaxImages

\* a - b on std::size_t
SizeSub(a, b) == IF a >= b THEN a - b ELSE a - b + SizeModulus

\* SamplingWoutReplace2: num distinct elements of dataVec, any of them
SamplingWoutReplace2(dataVec, num) == {T \in SUBSET dataVec : Cardinality(T) = num}

\* the landmarks the first part may erase, and the subtraction it evaluates
LandmarksToMove(structure, lmNumThd) ==
    IF Cardinality(DOMAIN structure) > lmNumThd
    THEN [moves |-> SamplingWoutReplace2(DOMAIN structure,
                                         SizeSub(Cardinality(DOMAIN structure), lmNumThd)),
          subs |-> {<<Cardinality(DOMAIN structure), lmNumThd>>}]
    ELSE [moves |-> {{}}, subs |-> {}]

\* variant: only a landmark with more observations than the cap is sampled,
\* and one observation too many is kept
ObservationsToMove_OffByOne(obs, obvNumThd) ==
    IF Cardinality(DOMAIN obs) <= obvNumThd THEN [moves |-> {{}}, subs |-> {}]
    ELSE [moves |-> SamplingWoutReplace2(DOMAIN obs,
                        SizeSub(Cardinality(DOMAIN obs), obvNumThd + 1)),
          subs |-> {<<Cardinality(DOMAIN obs), obvNumThd + 1>>}]

\* the observations of one landmark the second part may erase
ObservationsToMove(obs, obvNumThd) ==
    IF Cardinality(DOMAIN obs) < obvNumThd THEN [moves |-> {{}}, subs |-> {}]
    ELSE [moves |-> SamplingWoutReplace2(DOMAIN obs,
                        SizeSub(Cardinality(DOMAIN obs), obvNumThd)),
          subs |-> {<<Cardinality(DOMAIN obs), obvNumThd>>}]

Restrict(f, S) == [x \in S |-> f[x]]

\* every structure DownsampleVeta may leave, with the subtractions evaluated
DownsampleVeta(structure, lmNumThd, obvNumThd) ==
    LET lms == LandmarksToMove(structure, lmNumThd)
    IN  UNION {
          LET kept == Restrict(structure, DOMAIN structure \ lmIdVecToMove)
              obvs == [lmId \in DOMAIN kept |-> ObservationsToMove(kept[lmId].obs, obvNumThd)]
          IN  {[structure |-> [lmId \in DOMAIN kept |->
                                  [obs |-> Restrict(kept[lmId].obs,
                                               DOMAIN kept[lmId].obs \ pick[lmId])]],
                subs |-> lms.subs \cup UNION {obvs[lmId].subs : lmId \in DOMAIN kept}] :
                  pick \in {f \in [DOMAIN kept -> SUBSET DOMAIN veta.views] :
                               \A lmId \in DOMAIN kept : f[lmId] \in obvs[lmId].moves}}
          : lmIdVecToMove \in lms.moves}

CallDownsampleVeta ==
    /\ veta.loaded
    /\ sfmRet.fn = "TryLoadSfMData"
    /\ \E lmNumThd \in LmNumThds, obvNumThd \in ObvNumThds :
        \E out \in DownsampleVeta(veta.structure, lmNumThd, obvNumThd) :
            /\ sfmRet' = [fn |-> "DownsampleVeta", lmNumThd |-> lmNumThd,
                          obvNumThd |-> obvNumThd, entry |-> veta.structure,
                          subs |-> out.subs]
            /\ veta' = [veta EXCEPT !.structure = out.structure]
    /\ UNCHANGED <<dataVars, solverVars, sfm, gravityVars, runVars>>

NextBridge ==
    \/ CallTryLoadSfMData
    \/ CallDownsampleVeta

SpecBridge == InitBridge /\ [][NextBridge]_vars

\* the callbacks of one iteration, in the order they were registered; ceres
\* stops at the first one that does not return SOLVER_CONTINUE
RECURSIVE RunCallbacks(_, _, _, _)
RunCallbacks(callbacks, i, summary, acc) ==
    IF i > Len(callbacks) \/ acc.stopped THEN acc
    ELSE IF callbacks[i] = "CeresViewerCallBack"
    THEN LET r == CeresViewerCallBack(summary)
         IN  RunCallbacks(callbacks, i + 1, summary,
                 [acc EXCEPT !.returns = @ \cup {r.return},
                             !.stopped = r.return # "SOLVER_CONTINUE"])
    ELSE LET r == CeresDebugCallBack(dirs.epoch, acc.cb, summary)
         IN  RunCallbacks(callbacks, i + 1, summary,
                 [acc EXCEPT !.returns = @ \cup {r.return},
                             !.stopped = r.return # "SOLVER_CONTINUE",
                             !.cb = r.cb,
                             !.written = @ \cup r.written])

\* one iteration of a ceres solve with _ceresOption
CeresIteration ==
    /\ life = "alive"
    /\ ~solveFinished
    /\ ~ceres.stopped
    /\ ceres.iters < MaxIters
    /\ \E summary \in Summaries :
        LET r == RunCallbacks(ceres.callbacks, 1, summary,
                              [returns |-> {}, stopped |-> FALSE, cb |-> debugCb,
                               written |-> {}])
        IN  /\ ceres' = [ceres EXCEPT !.iters = @ + 1, !.returns = @ \cup r.returns,
                                      !.stopped = r.stopped]
            /\ debugCb' = r.cb
            /\ written' = written \cup r.written
            /\ runRet' = [fn |-> "CeresIteration", summary |-> summary,
                          epoch |-> dirs.epoch, returns |-> r.returns]
    /\ UNCHANGED <<dataVars, solverVars, bridgeVars, gravityVars, dirs, paramInEachIter,
                   viewer, solveFinished, life, warnings>>

\* the end of the last solving stage
FinishSolving ==
    /\ life = "alive"
    /\ ~solveFinished
    /\ solveFinished' = TRUE
    /\ UNCHANGED <<dataVars, solverVars, bridgeVars, gravityVars, dirs, paramInEachIter,
                   viewer, ceres, debugCb, life, written, warnings, runRet>>

CallSaveStageCalibParam ==
    /\ life = "alive"
    /\ \E desc \in StageDescs :
        LET r == SaveStageCalibParam(dirs.stage, desc)
        IN  /\ dirs' = [dirs EXCEPT !.stage = r.dir]
            /\ warnings' = warnings \cup r.warnings
            /\ written' = written \cup r.written
            /\ runRet' = [fn |-> "SaveStageCalibParam", dirFailed |-> dirs.stage = "blocked",
                          out |-> r.out, warned |-> r.warnings # {}]
    /\ UNCHANGED <<dataVars, solverVars, bridgeVars, gravityVars, paramInEachIter,
                   viewer, ceres, debugCb, solveFinished, life>>

\* a Status that StoreImagesForSfM throws ends the run
CallStoreImagesForSfM ==
    /\ life = "alive"
    /\ ~sfm.exported
    /\ \E topic \in cfg.CameraTopics :
        LET r == StoreImagesForSfM(topic, dirs.images, sfm)
        IN  /\ dirs' = [dirs EXCEPT !.images = r.images]
            /\ sfm' = r.ws
            /\ written' = written \cup r.written
            /\ life' = IF r.out = "CRITICAL" THEN "failed" ELSE life
            /\ runRet' = [fn |-> "StoreImagesForSfM",
                          dirFailed |-> dirs.images = "blocked" \/ sfm.workspace = "blocked",
                          out |-> r.out, warned |-> FALSE]
    /\ UNCHANGED <<dataVars, solverVars, veta, sfmRet, gravityVars, paramInEachIter,
                   viewer, ceres, debugCb, solveFinished, warnings>>

\* variant: the destructor never tells the viewer to quit
DestructorSignalsQuit_Never(finished) == FALSE

\* the destructor, first part: pangolin::QuitAll() unless solving has finished
DestructorSignalsQuit(finished) == ~finished

DestructorSignal ==
    /\ life \in {"alive", "failed"}
    /\ viewer' = IF DestructorSignalsQuit(solveFinished) THEN [viewer EXCEPT !.quit = TRUE]
                 ELSE viewer
    /\ life' = "waiting"
    /\ UNCHANGED <<dataVars, solverVars, bridgeVars, gravityVars, dirs, paramInEachIter,
                   ceres, debugCb, solveFinished, written, warnings, runRet>>

\* variant: the destructor returns without waiting for the viewer
DestructorMayReturn_NoWait(v) == TRUE

\* the destructor, second part: it sleeps while the viewer is active
DestructorMayReturn(v) == ~v.active

DestructorWait ==
    /\ life = "waiting"
    /\ DestructorMayReturn(viewer)
    /\ life' = "destroyed"
    /\ UNCHANGED <<dataVars, solverVars, bridgeVars, gravityVars, dirs, paramInEachIter,
                   viewer, ceres, debugCb, solveFinished, written, warnings, runRet>>

\* the viewer's loop ends: after pangolin::QuitAll(), or when its window is
\* closed
ViewerStops ==
    /\ viewer.active
    /\ viewer' = [viewer EXCEPT !.active = FALSE]
    /\ UNCHANGED <<dataVars, solverVars, bridgeVars, gravityVars, dirs, paramInEachIter,
                   ceres, debugCb, solveFinished, life, written, warnings, runRet>>

\* the raw timestamps of the camera frames of a run: one frame per tick, or
\* with one more frame less than a millisecond after the frame of a tick (a
\* camera that delivers two images in quick succession)
CameraStampSets ==
    LET perTick == {k * Unit : k \in ExportedTicks}
    IN  {perTick, perTick \cup {SetMin(perTick) + Unit + 1}}

RECURSIVE FramesOfStamps(_, _)
FramesOfStamps(tp, stamps) ==
    IF stamps = {} THEN <<>>
    ELSE <<LoadedFrame(tp, SetMin(stamps))>> \o FramesOfStamps(tp, stamps \ {SetMin(stamps)})

\* the directories and the output option a solver starts with
InitRun ==
    /\ cfg = MkConfig({"imu0"}, {}, {}, {"cam0"})
    /\ bag = OpenedBag
    /\ view = QueriedView(WholeLog)
    /\ pc = "aligned"
    /\ unpacked = "none"
    /\ status = ""
    /\ imuMes = [tp \in cfg.IMUTopics |-> FramesAt(tp, ExportedTicks)]
    /\ radarMes = EmptyMap({})
    /\ lidarMes = EmptyMap({})
    /\ \E stamps \in CameraStampSets :
        camMes = [tp \in cfg.CameraTopics |-> FramesOfStamps(tp, stamps)]
    /\ oldRadarMes = EmptyMap({})
    /\ rawStartTimestamp = 0
    /\ rawEndTimestamp = MaxTick * Unit
    /\ alignedStartTimestamp = 0
    /\ alignedEndTimestamp = MaxTick * Unit
    /\ splines = NoSplines
    /\ TO = [tp \in cfg.CameraTopics |-> 0]
    /\ EXTRI = [tp \in DOMAIN TO |-> IdentitySE3]
    /\ scaleTypes = {}
    /\ ret = [fn |-> "none"]
    /\ sfm \in {[NoWorkspace EXCEPT !.workspace = w] : w \in {"creatable", "blocked"}}
    /\ veta = NoVeta
    /\ sfmRet = [fn |-> "none"]
    /\ GravityIdle
    /\ Unconstructed
    /\ dirs \in [stage : DirStates, epoch : DirStates, images : {"creatable", "blocked"}]
    /\ paramInEachIter \in BOOLEAN

NextRun ==
    \/ CreateSolver
    \/ CeresIteration
    \/ FinishSolving
    \/ CallSaveStageCalibParam
    \/ CallStoreImagesForSfM
    \/ DestructorSignal
    \/ DestructorWait
    \/ ViewerStops

SpecRun == InitRun /\ [][NextRun]_vars

\* the viewer's loop ends because pangolin::QuitAll() told it to
ViewerQuits == viewer.quit /\ ViewerStops

\* the lifecycle with its scheduling: the thread that runs the destructor
\* tests IsActive() every 100 ms, and a viewer that was told to quit leaves
\* its loop; a viewer that was not told to quit stays up until its window is
\* closed, which nothing schedules
SpecRunFair ==
    /\ InitRun
    /\ [][NextRun]_vars
    /\ WF_vars(DestructorWait)
    /\ WF_vars(ViewerQuits)

\* ---------------------------------------------------------------------------
\* CalibSolver: AlignStatesToGravity
\* ---------------------------------------------------------------------------
\* Vectors are the six signed axes and the zero vector: the axis k is k, its
\* opposite is -k.  A rotation is one of the 24 rotations that map axes to
\* axes, written as the images <<R(e1), R(e2), R(e3)>> of the three axes.
Axes == {1, 2, 3}
SignedAxes == {k : k \in Axes} \cup {0 - k : k \in Axes}
Vectors == SignedAxes \cup {0}

AbsAxis(v) == IF v < 0 THEN 0 - v ELSE v

IsEven(R) ==
    <<AbsAxis(R[1]), AbsAxis(R[2]), AbsAxis(R[3])>> \in {<<1, 2, 3>>, <<2, 3, 1>>, <<3, 1, 2>>}

Negatives(R) == Cardinality({k \in Axes : R[k] < 0})

\* the signed permutations of determinant one
Rotations ==
    {R \in [Axes -> SignedAxes] :
        /\ {AbsAxis(R[k]) : k \in Axes} = Axes
        /\ IsEven(R) = (Negatives(R) % 2 = 0)}

IdentityRotation == [k \in Axes |-> k]

\* R * v
Rotate(R, v) == IF v = 0 THEN 0 ELSE IF v > 0 THEN R[v] ELSE 0 - R[0 - v]

\* R * Q: Q first, then R
Compose(R, Q) == [k \in Axes |-> Rotate(R, Q[k])]

\* the inverse maps the image of an axis back to the axis
Inverse(R) ==
    [a \in Axes |->
        LET k == CHOOSE x \in Axes : AbsAxis(R[x]) = a
        IN  IF R[k] > 0 THEN k ELSE 0 - k]

\* ObtainAlignedWtoRef: a rotation from the world frame, whose negative z axis
\* is the direction of gravity, to the reference frame
ObtainAlignedWtoRef(SO3_B0toRef, gravityInRef) ==
    {W \in Rotations : Rotate(W, DownAxis) = gravityInRef}

\* so3Spline.Evaluate(so3Spline.MinTime()): the orientation at the start
EvaluateAtMinTime(knots) == knots[1]

\* variant: the scale knots are rotated only when they are positions
RotateKnots_PositionOnly(SO3_RefToW, so3, scale) ==
    [so3Knots |-> [i \in 1..Len(so3) |-> Compose(SO3_RefToW, so3[i])],
     scaleKnots |-> IF GetScaleType = "LIN_POS_SPLINE"
                    THEN [i \in 1..Len(scale) |-> Rotate(SO3_RefToW, scale[i])]
                    ELSE scale]

\* the two loops over the knots
RotateKnots(SO3_RefToW, so3, scale) ==
    [so3Knots |-> [i \in 1..Len(so3) |-> Compose(SO3_RefToW, so3[i])],
     scaleKnots |-> [i \in 1..Len(scale) |-> Rotate(SO3_RefToW, scale[i])]]

AlignStatesToGravity ==
    /\ life = "alive"
    /\ so3Knots # <<>>
    /\ runRet.fn # "AlignStatesToGravity"
    /\ \E W \in ObtainAlignedWtoRef(EvaluateAtMinTime(so3Knots), GRAVITY) :
        LET SO3_RefToW == Inverse(W)
            knots == RotateKnots(SO3_RefToW, so3Knots, scaleKnots)
        IN  /\ GRAVITY' = Rotate(SO3_RefToW, GRAVITY)
            /\ so3Knots' = knots.so3Knots
            /\ scaleKnots' = knots.scaleKnots
            /\ runRet' = [fn |-> "AlignStatesToGravity", SO3_RefToW |-> SO3_RefToW]
    /\ UNCHANGED <<dataVars, solverVars, bridgeVars, dirs, paramInEachIter, life, viewer,
                   ceres, debugCb, solveFinished, written, warnings>>

\* the orientations and vectors the knots hold after the solving stages
KnotRotations == {IdentityRotation, <<2, 0 - 1, 3>>, <<1, 3, 0 - 2>>, <<2, 3, 1>>}
KnotVectors == {0, 1, 0 - 2, 3}

\* the sensor mixes of the three scale types
GravityMixes ==
    { MkConfig({"imu0"}, {}, {}, {"cam0"}),
      MkConfig({"imu0"}, {"rad_arr"}, {}, {}),
      MkConfig({"imu0"}, {}, {}, {}) }

\* a solver after its solving stages, with an estimate of gravity
InitGravity ==
    /\ cfg \in GravityMixes
    /\ bag = OpenedBag
    /\ view = QueriedView(WholeLog)
    /\ pc = "aligned"
    /\ unpacked = "none"
    /\ status = ""
    /\ imuMes = [tp \in cfg.IMUTopics |-> FramesAt(tp, ExportedTicks)]
    /\ radarMes = [tp \in cfg.RadarTopics |-> FramesAt(tp, ExportedTicks)]
    /\ lidarMes = EmptyMap({})
    /\ camMes = [tp \in cfg.CameraTopics |-> FramesAt(tp, ExportedTicks)]
    /\ oldRadarMes = [tp \in cfg.RadarTopics |-> FramesAt(tp, ExportedTicks)]
    /\ rawStartTimestamp = 0
    /\ rawEndTimestamp = MaxTick * Unit
    /\ alignedStartTimestamp = 0
    /\ alignedEndTimestamp = MaxTick * Unit
    /\ splines = CreateSplineBundle(GetCalibStartTimestamp, GetCalibEndTimestamp, 0, 0)
    /\ TO = [tp \in cfg.RadarTopics \cup cfg.CameraTopics |-> 0]
    /\ EXTRI = [tp \in DOMAIN TO |-> IdentitySE3]
    /\ scaleTypes = {}
    /\ ret = [fn |-> "none"]
    /\ BridgeIdle
    /\ so3Knots \in [1..MaxKnots -> KnotRotations]
    /\ scaleKnots \in [1..MaxKnots -> KnotVectors]
    /\ GRAVITY \in SignedAxes
    /\ dirs = [stage |-> "creatable", epoch |-> "creatable", images |-> "creatable"]
    /\ paramInEachIter = FALSE
    /\ life = "alive"
    /\ viewer = [active |-> TRUE, quit |-> FALSE]
    /\ ceres = [NoCallbacks EXCEPT !.callbacks = <<"CeresViewerCallBack">>]
    /\ debugCb = NoDebugCallBack
    /\ solveFinished = FALSE
    /\ written = {}
    /\ warnings = {}
    /\ runRet = [fn |-> "CalibSolver", dirFailed |-> FALSE, out |-> "returned",
                 warned |-> FALSE]

NextGravity ==
    \/ AlignStatesToGravity

SpecGravity == InitGravity /\ [][NextGravity]_vars

\* ---------------------------------------------------------------------------
\* the query of the time range, on every log span and every configured range
\* ---------------------------------------------------------------------------
\* the logs: first and last message on two ticks, and the offsets configured
LogViews ==
    {LogView(b * Unit, e * Unit, B * Unit, D * Unit) :
        b \in 0..MaxTick, e \in 0..MaxTick, B \in OffsetTicks, D \in OffsetTicks}

InitQuery ==
    /\ cfg = MkConfig({"imu0"}, {}, {}, {})
    /\ bag = OpenedBag
    /\ view \in {v \in LogViews : v.logBeg <= v.logEnd}
    /\ pc = "querying"
    /\ status = ""
    /\ unpacked = "none"
    /\ imuMes = EmptyMap(cfg.IMUTopics)
    /\ radarMes = EmptyMap(cfg.RadarTopics)
    /\ lidarMes = EmptyMap(cfg.LiDARTopics)
    /\ camMes = EmptyMap(cfg.CameraTopics)
    /\ oldRadarMes = EmptyMap(cfg.RadarTopics)
    /\ rawStartTimestamp = 0
    /\ rawEndTimestamp = 0
    /\ alignedStartTimestamp = 0
    /\ alignedEndTimestamp = 0
    /\ splines = NoSplines
    /\ TO = [tp \in {} |-> 0]
    /\ EXTRI = [tp \in DOMAIN TO |-> IdentitySE3]
    /\ scaleTypes = {}
    /\ ret = [fn |-> "none"]
    /\ BridgeIdle
    /\ GravityIdle
    /\ RunIdle

NextQuery ==
    \/ QueryBag
    \/ ReadIMU

SpecQuery == InitQuery /\ [][NextQuery]_vars

\* ---------------------------------------------------------------------------
\* loading a log with the padding configured as half a tick, as two ticks
\* (longer than the distance of two messages) or as an eighth of a tick (a
\* small part of the time a radar group may span)
\* ---------------------------------------------------------------------------
Paddings == {HalfTickPadding, 2 * Unit}

PaddedMixes ==
    {[mix EXCEPT !.TimeOffsetPadding = p] :
        mix \in {MkConfig({"imu0"}, {}, {}, {}), MkConfig({"imu0"}, {}, {"lid0"}, {})},
        p \in Paddings}
    \cup {[MkConfig({"imu0"}, {"rad_awr"}, {}, {}) EXCEPT !.TimeOffsetPadding = Unit \div 8]}

InitPadding ==
    /\ cfg \in PaddedMixes
    /\ bag = OpenedBag
    /\ view = QueriedView(WholeLog)
    /\ pc = "reading"
    /\ status = ""
    /\ unpacked = "none"
    /\ imuMes = EmptyMap(cfg.IMUTopics)
    /\ radarMes = EmptyMap(cfg.RadarTopics)
    /\ lidarMes = EmptyMap(cfg.LiDARTopics)
    /\ camMes = EmptyMap(cfg.CameraTopics)
    /\ oldRadarMes = EmptyMap(cfg.RadarTopics)
    /\ rawStartTimestamp = 0
    /\ rawEndTimestamp = 0
    /\ alignedStartTimestamp = 0
    /\ alignedEndTimestamp = 0
    /\ splines = NoSplines
    /\ TO = [tp \in cfg.RadarTopics \cup cfg.LiDARTopics |-> 0]
    /\ EXTRI = [tp \in DOMAIN TO |-> IdentitySE3]
    /\ scaleTypes = {}
    /\ ret = [fn |-> "none"]
    /\ BridgeIdle
    /\ GravityIdle
    /\ RunIdle

NextPadding ==
    \/ ReadIMU
    \/ ReadRadar
    \/ ReadLiDAR
    \/ CheckTopics
    \/ RegroupRadar
    \/ AdjustCalibDataSequence
    \/ AlignTimestamp
    \/ CreateSolver

SpecPadding == InitPadding /\ [][NextPadding]_vars

Next ==
    \/ OpenBag
    \/ QueryBag
    \/ ReadIMU
    \/ ReadRadar
    \/ ReadLiDAR
    \/ ReadCamera
    \/ ReadIncompatible
    \/ CheckTopics
    \/ RegroupRadar
    \/ AdjustCalibDataSequence
    \/ AlignTimestamp

Spec == Init /\ [][Next]_vars

\* ===========================================================================
\* the claims
\* ===========================================================================
RECURSIVE SumTimes(_, _)
SumTimes(times, i) == IF i > Len(times) THEN 0 ELSE times[i] + SumTimes(times, i + 1)

ReadingTimes(readings) == [k \in 1..Len(readings) |-> readings[k].targets[1]]

AllWithinGapOfFirst(readings) ==
    \A k \in 1..Len(readings) : Abs(readings[k].ts - readings[1].ts) < RadarMergeGap

AllFrames(mesMap) == UNION {{mesMap[tp][k] : k \in 1..Len(mesMap[tp])} : tp \in DOMAIN mesMap}

NonInertialFrames == AllFrames(radarMes) \cup AllFrames(lidarMes) \cup AllFrames(camMes)

NonInertialStreams ==
    {radarMes[tp] : tp \in DOMAIN radarMes} \cup {lidarMes[tp] : tp \in DOMAIN lidarMes}
        \cup {camMes[tp] : tp \in DOMAIN camMes}

AllStreams == {imuMes[tp] : tp \in DOMAIN imuMes} \cup NonInertialStreams

\* C1 (as claimed): once the radar regrouping of LoadCalibData has run, a
\* stream of an AWR1843BOOST model whose N >= 1 readings all lie within 0.1 s
\* of the first one has become exactly one array, which holds all N targets
\* and whose timestamp is the arithmetic mean of the N member times.
C1_SingleGroupBecomesOneArray ==
    pc \in {"regrouped", "crashed"} =>
        \A tp \in cfg.RadarTopics :
            (NeedsRegrouping(tp) /\ oldRadarMes[tp] # <<>>
                /\ AllWithinGapOfFirst(oldRadarMes[tp])) =>
                /\ Len(radarMes[tp]) = 1
                /\ radarMes[tp][1].targets = ReadingTimes(oldRadarMes[tp])
                /\ Len(oldRadarMes[tp]) * radarMes[tp][1].ts
                       = SumTimes(ReadingTimes(oldRadarMes[tp]), 1)

\* C2 (as claimed): after AlignTimestamp the smallest frame timestamp over
\* all inertial streams is exactly 0.
C2_MinInertialTimestampIsZero ==
    pc = "aligned" => SetMin({f.ts : f \in AllFrames(imuMes)}) = 0

C4_RawWindowIsIntersection ==
    [][(pc = "regrouped" /\ pc' = "adjusted") =>
        /\ rawStartTimestamp' = SetMax({seq[1].ts : seq \in AllStreams})
        /\ rawEndTimestamp' = SetMin({seq[Len(seq)].ts : seq \in AllStreams})]_vars

\* C4 witness: the camera stream, not the inertial one, has set both ends of
\* the raw window (inertial span [0, 6] ticks, camera span [1, 5] ticks)
C4_Witness ==
    /\ pc = "adjusted"
    /\ cfg.CameraTopics = {"cam0"}
    /\ rawStartTimestamp = Unit
    /\ rawEndTimestamp = 5 * Unit
    /\ imuMes["imu0"][1].ts = 2 * Unit
    /\ camMes["cam0"][1].ts = 3 * Unit

\* C5 (as claimed): LoadCalibData never goes on with an empty stream: past
\* the topic check every configured stream holds a frame, and the run never
\* ends in anything but a normal return or a descriptive fatal failure.
C5_EmptyStreamIsDescriptiveFatal ==
    /\ pc \in {"regrouped", "adjusted", "aligned"} =>
        ~SomeStreamEmpty(imuMes, radarMes, lidarMes, camMes)
    /\ pc # "crashed"
    /\ pc = "fatal" => status # ""

C7_CalibWindow ==
    pc = "aligned" =>
        /\ GetAlignedStartTimestamp = 0
        /\ GetAlignedEndTimestamp = rawEndTimestamp - rawStartTimestamp
        /\ GetCalibStartTimestamp = TimeOffsetPadding
        /\ GetCalibEndTimestamp = (rawEndTimestamp - rawStartTimestamp) - TimeOffsetPadding

\* C7 witness: an inertial-only log that spans [0, 6] ticks
C7_Witness ==
    /\ pc = "aligned"
    /\ cfg = MkConfig({"imu0"}, {}, {}, {})
    /\ rawStartTimestamp = 0
    /\ rawEndTimestamp = 6 * Unit
    /\ GetAlignedEndTimestamp = 6 * Unit
    /\ GetCalibEndTimestamp = 6 * Unit - TimeOffsetPadding

\* C8: GetScaleType depends on the sensor mix alone: position when a scan or
\* a camera sensor is integrated, whatever the radar; else velocity when a
\* radar is integrated; else acceleration; and it never returns two
\* different values under one configuration.
C8_ScaleTypeByMix ==
    /\ (cfg.LiDARTopics # {} \/ cfg.CameraTopics # {}) => scaleTypes \subseteq {"LIN_POS_SPLINE"}
    /\ (cfg.LiDARTopics = {} /\ cfg.CameraTopics = {} /\ cfg.RadarTopics # {}) =>
        scaleTypes \subseteq {"LIN_VEL_SPLINE"}
    /\ (cfg.LiDARTopics = {} /\ cfg.CameraTopics = {} /\ cfg.RadarTopics = {}) =>
        scaleTypes \subseteq {"LIN_ACCE_SPLINE"}
    /\ Cardinality(scaleTypes) <= 1

\* C8 witness: position has been returned with a radar and a camera
C8_Witness ==
    /\ cfg.RadarTopics # {}
    /\ cfg.CameraTopics # {}
    /\ cfg.LiDARTopics = {}
    /\ scaleTypes = {"LIN_POS_SPLINE"}

PoseQueries == {"CurBrToW", "CurLkToW", "CurCmToW", "CurRjToW"}

\* the body time of the last pose query
BodyTime == IF ret.fn = "CurBrToW" THEN ret.t ELSE ret.t + TO[ret.topic]

OutOfRange(spline, t) == t < spline.MinTime \/ t > spline.MaxTime

\* C9: with no scan and no camera sensor integrated (the scale spline is not
\* position-typed), every world-pose query ends in the CRITICAL status,
\* whatever its timestamp and topic.
C9_PoseQueryIsCriticalWithoutPosition ==
    (ret.fn \in PoseQueries /\ cfg.LiDARTopics = {} /\ cfg.CameraTopics = {}) =>
        ret.out.result = "CRITICAL"

\* C9 witness: a radar pose query, for a configured radar and a time before
\* the splines start, has ended in CRITICAL
C9_Witness ==
    /\ ret.fn = "CurRjToW"
    /\ ret.topic \in cfg.RadarTopics
    /\ ret.t + TO[ret.topic] < splines.so3.MinTime
    /\ ret.out.result = "CRITICAL"

\* C10: with a position-typed scale spline, a pose query that reaches the
\* range test returns no pose when the body time is outside the range of the
\* orientation spline or of the scale spline, and a pose it returns is both
\* splines evaluated at that body time, which is in the range of both.
C10_NoPoseOutsideSplineRange ==
    (ret.fn \in PoseQueries /\ ret.out.result \in {"nullopt", "pose"}) =>
        /\ (OutOfRange(splines.so3, BodyTime) \/ OutOfRange(splines.scale, BodyTime)) =>
            ret.out.result = "nullopt"
        /\ ret.out.result = "pose" =>
            /\ ~OutOfRange(splines.so3, BodyTime)
            /\ ~OutOfRange(splines.scale, BodyTime)
            /\ ret.out.pose[1].so3At = BodyTime
            /\ ret.out.pose[1].posAt = BodyTime

\* C10 witness: a LiDAR pose query at a body time inside the orientation
\* spline but beyond the end of the scale spline has returned no pose
C10_Witness ==
    /\ ret.fn = "CurLkToW"
    /\ ret.out.result = "nullopt"
    /\ ~OutOfRange(splines.so3, BodyTime)
    /\ BodyTime > splines.scale.MaxTime


\* the reconstruction TryLoadSfMData has returned
SfMLoaded == sfmRet.fn = "TryLoadSfMData" /\ sfmRet.out.result = "veta"

\* the views in which point p keeps an observation: the track elements whose
\* feature refers back to p and whose image is a view of the result
SurvivingViews(p) ==
    LET track == sfm.points3D[p].track
    IN  {sfm.images[track[i].image_id].name[1] : i \in
            {k \in 1..Len(track) :
                /\ sfm.images[track[k].image_id].points2D[track[k].point2D_idx] = p
                /\ sfm.images[track[k].image_id].name[1] \in DOMAIN sfmRet.out.veta.views}}

\* C11: every landmark in the structure TryLoadSfMData returns has
\* reprojection error <= errorThd and at least trackLenThd observations, and
\* a point whose error is above errorThd, or that keeps fewer than
\* trackLenThd observations, is not in the structure.
C11_LandmarksPassBothFilters ==
    SfMLoaded =>
        /\ \A p \in DOMAIN sfmRet.out.veta.structure :
            /\ sfm.points3D[p].error <= sfmRet.errorThd
            /\ Cardinality(DOMAIN sfmRet.out.veta.structure[p].obs) >= sfmRet.trackLenThd
            /\ DOMAIN sfmRet.out.veta.structure[p].obs = SurvivingViews(p)
        /\ \A p \in DOMAIN sfm.points3D :
            (\/ sfm.points3D[p].error > sfmRet.errorThd
             \/ Cardinality(SurvivingViews(p)) < sfmRet.trackLenThd) =>
                p \notin DOMAIN sfmRet.out.veta.structure

\* C11 witness: of two points with a track of two observations, the one with
\* the small error is in the structure and the one with the large error is
\* not; likewise a point with a small error has been dropped for keeping
\* fewer observations than its track holds
C11_Witness ==
    /\ SfMLoaded
    /\ sfmRet.trackLenThd = 2
    /\ 1 \in DOMAIN sfmRet.out.veta.structure
    /\ Len(sfm.points3D[2].track) = 2
    /\ sfm.points3D[2].error > sfmRet.errorThd
    /\ 2 \notin DOMAIN sfmRet.out.veta.structure

C11_WitnessDroppedForObs ==
    /\ SfMLoaded
    /\ sfm.points3D[1].error <= sfmRet.errorThd
    /\ Len(sfm.points3D[1].track) >= sfmRet.trackLenThd
    /\ 1 \notin DOMAIN sfmRet.out.veta.structure


\* C12: DownsampleVeta leaves min(n, lmNumThd) of the n landmarks it was
\* given, all of them landmarks it was given; a landmark it leaves, of k
\* observations on entry, keeps min(k, obvNumThd) of them; and every
\* subtraction a - b it evaluates on sizes has a >= b.
C12_DownsampleCapsBothCounts ==
    sfmRet.fn = "DownsampleVeta" =>
        /\ Cardinality(DOMAIN veta.structure)
               = Min(Cardinality(DOMAIN sfmRet.entry), sfmRet.lmNumThd)
        /\ DOMAIN veta.structure \subseteq DOMAIN sfmRet.entry
        /\ Cardinality(DOMAIN sfmRet.entry) <= sfmRet.lmNumThd =>
               DOMAIN veta.structure = DOMAIN sfmRet.entry
        /\ \A lmId \in DOMAIN veta.structure :
            /\ DOMAIN veta.structure[lmId].obs \subseteq DOMAIN sfmRet.entry[lmId].obs
            /\ Cardinality(DOMAIN veta.structure[lmId].obs)
                   = Min(Cardinality(DOMAIN sfmRet.entry[lmId].obs), sfmRet.obvNumThd)
        /\ \A sub \in sfmRet.subs : sub[1] >= sub[2]

\* C12 witness: of two landmarks one has been erased, and the other one has
\* lost one of its two observations
C12_Witness ==
    /\ sfmRet.fn = "DownsampleVeta"
    /\ Cardinality(DOMAIN sfmRet.entry) = 2
    /\ sfmRet.lmNumThd = 1
    /\ sfmRet.obvNumThd = 1
    /\ \E lmId \in DOMAIN veta.structure :
        /\ Cardinality(DOMAIN sfmRet.entry[lmId].obs) = 2
        /\ Cardinality(DOMAIN veta.structure[lmId].obs) = 1


\* one of the inputs TryLoadSfMData expects is missing
SfMInputMissing ==
    \/ ~sfm.hasInfo
    \/ sfm.workspace # "exists"
    \/ ~sfm.hasCameras
    \/ ~sfm.hasImages
    \/ ~sfm.hasPoints

\* C13: a call of TryLoadSfMData that finds the image index file, the
\* workspace, cameras.txt, images.txt or points3D.txt missing returns nullptr,
\* throws nothing, and leaves the state of the data manager and of the solver
\* (the reconstruction it holds included) as it was.
C13_MissingInputIsNothingToImport ==
    [][(sfmRet'.fn = "TryLoadSfMData" /\ sfmRet.fn = "none" /\ SfMInputMissing) =>
        /\ sfmRet'.out.result = "nullptr"
        /\ sfmRet'.out.warnings # {}
        /\ UNCHANGED <<dataVars, solverVars, veta>>]_vars

\* C13 witness: the call has returned nullptr for a workspace in which only
\* points3D.txt is missing
C13_Witness ==
    /\ sfmRet.fn = "TryLoadSfMData"
    /\ sfm.hasInfo /\ sfm.workspace = "exists" /\ sfm.hasCameras /\ sfm.hasImages
    /\ ~sfm.hasPoints
    /\ sfmRet.out.result = "nullptr"
    /\ sfmRet.out.warnings = {"points"}
    /\ veta = NoVeta

\* C14 (as claimed): when the configured log path does not exist,
\* LoadCalibData aborts with a descriptive fatal failure where it finds that
\* out: it does not go on to query the log, read messages, trim or align.
C14_MissingBagPathAborts ==
    (~bag.pathExists /\ pc # "opening") => (pc = "fatal" /\ status # "")


\* the operations that create an output directory
DirCreators == {"SaveStageCalibParam", "CeresDebugCallBack", "StoreImagesForSfM"}

\* C15 (as claimed): an operation that fails to create its output directory
\* (SaveStageCalibParam, the constructor of CeresDebugCallBack,
\* StoreImagesForSfM for the image folder and the SfM workspace) never aborts:
\* it returns, and the solver goes on.
C15_DirFailureNeverAborts ==
    (runRet.fn \in DirCreators /\ runRet.dirFailed) =>
        (runRet.out = "returned" /\ life # "failed")


\* C16: a step of AlignStatesToGravity applies one rotation R to the gravity
\* vector, to every knot of the orientation spline and to every knot of the
\* scale spline, whatever the scale type; both splines keep their numbers of
\* knots, and the relative rotation between any two orientation knots is what
\* it was.
C16_OneRotationForAllStates ==
    [][(runRet'.fn = "AlignStatesToGravity" /\ runRet.fn # "AlignStatesToGravity") =>
        /\ Len(so3Knots') = Len(so3Knots)
        /\ Len(scaleKnots') = Len(scaleKnots)
        /\ \E R \in Rotations :
            /\ GRAVITY' = Rotate(R, GRAVITY)
            /\ \A i \in 1..Len(so3Knots) : so3Knots'[i] = Compose(R, so3Knots[i])
            /\ \A i \in 1..Len(scaleKnots) : scaleKnots'[i] = Rotate(R, scaleKnots[i])
        /\ \A i, j \in 1..Len(so3Knots) :
            Compose(Inverse(so3Knots'[i]), so3Knots'[j])
                = Compose(Inverse(so3Knots[i]), so3Knots[j])]_vars

\* C16 witness: an inertial-only solver (acceleration knots) has been aligned
\* by a rotation other than the identity, with two different orientation knots
C16_Witness ==
    /\ runRet.fn = "AlignStatesToGravity"
    /\ GetScaleType = "LIN_ACCE_SPLINE"
    /\ runRet.SO3_RefToW # IdentityRotation
    /\ GRAVITY = DownAxis
    /\ so3Knots[1] # so3Knots[2]
    /\ scaleKnots[1] # 0


\* C17: every invocation of CeresViewerCallBack and of CeresDebugCallBack
\* returns SOLVER_CONTINUE, whatever the iteration summary and whether or not
\* the epoch directory exists; no iteration is stopped by a callback.
C17_CallbacksAlwaysContinue ==
    /\ ceres.returns \subseteq {"SOLVER_CONTINUE"}
    /\ ~ceres.stopped
    /\ runRet.fn = "CeresIteration" =>
        (runRet.returns = {"SOLVER_CONTINUE"} /\ ceres.iters >= 1)

\* C17 witness: both callbacks have run in an iteration while the epoch
\* directory did not exist, and no snapshot was written
C17_Witness ==
    /\ runRet.fn = "CeresIteration"
    /\ Len(ceres.callbacks) = 2
    /\ runRet.epoch = "blocked"
    /\ runRet.summary.step_is_successful = FALSE
    /\ debugCb.idx = 0
    /\ ceres.iters = MaxIters
    /\ ceres.returns = {"SOLVER_CONTINUE"}


\* C18 (as claimed): in every execution, the one where solving finished
\* included, the destructor has signalled the viewer to quit before it waits,
\* and it does not return while the viewer is active.
C18_QuitSignalPrecedesWait ==
    /\ life \in {"waiting", "destroyed"} => viewer.quit
    /\ life = "destroyed" => ~viewer.active

\* C18 (amended): the destructor signals the viewer to quit exactly when
\* solving has not finished, and then before it waits; in every execution it
\* does not return while the viewer is active.
C18_DestructorWaitsForViewer ==
    /\ life \in {"waiting", "destroyed"} => (viewer.quit <=> ~solveFinished)
    /\ viewer.quit => life \in {"waiting", "destroyed"}
    /\ life = "destroyed" => ~viewer.active

\* C18 witness: a solver whose solving finished has been destroyed without a
\* quit signal, once the viewer had stopped
C18_Witness ==
    /\ life = "destroyed"
    /\ solveFinished
    /\ ~viewer.quit
    /\ ~viewer.active

\* the frames of every stream
EveryFrame == AllFrames(imuMes) \cup NonInertialFrames

\* C19 (as claimed): the timestamp of every retained frame is set once by
\* AdjustCalibDataSequence and once more by AlignTimestamp: once after the
\* trimming, twice after the alignment.
C19_TimestampSetTwice ==
    /\ pc = "adjusted" => \A f \in EveryFrame : f.nSet = 1
    /\ pc = "aligned" => \A f \in EveryFrame : f.nSet = 2

\* C19 (amended): the timestamp of every retained frame is set exactly once,
\* by AlignTimestamp; up to and including AdjustCalibDataSequence, which only
\* erases frames, it has not been set since the frame was created.
C19_TimestampSetOnce ==
    /\ pc \in {"reading", "checked", "regrouped", "adjusted", "fatal"} =>
        \A f \in EveryFrame : f.nSet = 0
    /\ pc = "aligned" => \A f \in EveryFrame : f.nSet = 1

\* C19 witness: a log with a regrouped radar has been trimmed and aligned by
\* a raw start after 0, and an array of two targets has been kept
C19_Witness ==
    /\ pc = "aligned"
    /\ rawStartTimestamp > 0
    /\ cfg.RadarTopics = {"rad_awr"}
    /\ Len(oldRadarMes["rad_awr"]) > Len(radarMes["rad_awr"])
    /\ \E f \in AllFrames(radarMes) : Len(f.targets) = 2 /\ f.nSet = 1

\* the ids of the camera frames that a reconstructed image is named after
ReconstructedFrameIds(topic) ==
    {camMes[topic][k].id : k \in 1..Len(camMes[topic])}
        \cap {sfm.images[c].name[1] : c \in DOMAIN sfm.images}

\* C20 (as claimed): a call of TryLoadSfMData that finds all its files, one
\* camera in the cameras file, returns a reconstruction and throws nothing, whatever the images are named;
\* its views are the camera frames a reconstructed image is named after, all
\* other images being discarded; and a camera frame without a view only adds
\* a warning.
C20_UnmatchedImagesDiscarded ==
    (sfmRet.fn = "TryLoadSfMData" /\ ~SfMInputMissing /\ sfm.cameras = 1) =>
        /\ sfmRet.out.result = "veta"
        /\ DOMAIN sfmRet.out.veta.views = ReconstructedFrameIds(sfmRet.topic)
        /\ ("not_reconstructed" \in sfmRet.out.warnings) <=>
               (\E k \in 1..Len(camMes[sfmRet.topic]) :
                   camMes[sfmRet.topic][k].id \notin DOMAIN sfmRet.out.veta.views)

\* one frame has been appended to the stream of one topic of the map
AppendedTo(old, new) ==
    \E tp \in DOMAIN old :
        /\ Len(new[tp]) = Len(old[tp]) + 1
        /\ SubSeq(new[tp], 1, Len(old[tp])) = old[tp]
        /\ \A k \in 1..Len(old[tp]) : old[tp][k].ts <= new[tp][Len(new[tp])].ts
        /\ \A other \in DOMAIN old \ {tp} : new[other] = old[other]

\* C21 (as claimed): a turn of the reading loop on a message that the
\* unpacker of its topic rejects appends nothing to any stream and leaves
\* LoadCalibData in the loop, without a failure; a turn on any other message
\* appends its frame at the end of the stream of its topic and nothing else.
C21_IncompatibleMessageSkipped ==
    [][/\ (pc = "reading" /\ unpacked' \in {"nullptr", "runtime_error"}) =>
            /\ pc' = "reading"
            /\ status' = status
            /\ UNCHANGED <<imuMes, radarMes, lidarMes, camMes>>
       /\ (pc = "reading" /\ unpacked' = "frame") =>
            \/ AppendedTo(imuMes, imuMes') /\ UNCHANGED <<radarMes, lidarMes, camMes>>
            \/ AppendedTo(radarMes, radarMes') /\ UNCHANGED <<imuMes, lidarMes, camMes>>
            \/ AppendedTo(lidarMes, lidarMes') /\ UNCHANGED <<imuMes, radarMes, camMes>>
            \/ AppendedTo(camMes, camMes') /\ UNCHANGED <<imuMes, radarMes, lidarMes>>]_vars

\* C23: for every start offset and duration, the range LoadCalibData queries
\* of an opened log lies in the log and is not reversed; a start offset beyond
\* the log end puts the begin at the log begin, an end beyond the log end is
\* put at the log end, and without a positive offset and duration the range
\* is the whole log.
C23_QueriedRangeInsideLog ==
    (bag.opened /\ pc \notin {"opening", "querying"}) =>
        /\ view.logBeg <= view.begTime
        /\ view.begTime <= view.endTime
        /\ view.endTime <= view.logEnd
        /\ (view.BeginTime > 0 /\ view.logBeg + view.BeginTime > view.logEnd) =>
               view.begTime = view.logBeg /\ "begin" \in view.warnings
        /\ (view.BeginTime > 0 /\ view.logBeg + view.BeginTime <= view.logEnd) =>
               view.begTime = view.logBeg + view.BeginTime
        /\ (view.Duration > 0 /\ view.begTime + view.Duration > view.logEnd) =>
               view.endTime = view.logEnd /\ "end" \in view.warnings
        /\ (view.Duration > 0 /\ view.begTime + view.Duration <= view.logEnd) =>
               view.endTime = view.begTime + view.Duration
        /\ (view.BeginTime <= 0 /\ view.Duration <= 0) =>
               view.begTime = view.logBeg /\ view.endTime = view.logEnd
        /\ \A f \in AllFrames(imuMes) : view.begTime <= f.ts /\ f.ts <= view.endTime

\* C23 witness: a start offset inside the log has moved the begin, the
\* duration from there overshoots and the end has been put at the log end,
\* and a message of the range has been read
C23_Witness ==
    /\ pc = "reading"
    /\ view.BeginTime > 0
    /\ view.begTime = view.logBeg + view.BeginTime
    /\ view.Duration > 0
    /\ view.begTime + view.Duration > view.logEnd
    /\ view.endTime = view.logEnd
    /\ view.warnings = {"end"}
    /\ view.begTime < view.endTime
    /\ imuMes["imu0"] # <<>>

\* C22: CurLkToW, CurCmToW and CurRjToW, called for a topic of their kind
\* with a position-typed scale spline, return a pose exactly when the body
\* time t + TO[topic] is in the range of both splines, whatever the range
\* says of t itself; the pose is the body pose at that body time times the
\* extrinsic of the topic; and with a zero offset and the identity extrinsic
\* the outcome is that of CurBrToW(t).
C22_SensorPoseIsBodyPoseTimesExtrinsic ==
    (ret.fn \in {"CurLkToW", "CurCmToW", "CurRjToW"}
        /\ ret.out.result \in {"nullopt", "pose"}) =>
        /\ ret.out.result = "pose" <=>
               /\ TimeStampInRange(splines.so3, ret.t + TO[ret.topic])
               /\ TimeStampInRange(splines.scale, ret.t + TO[ret.topic])
        /\ ret.out.result = "pose" =>
               ret.out.pose = Mul(CurBrToW(ret.t + TO[ret.topic]).pose, EXTRI[ret.topic])
        /\ (TO[ret.topic] = 0 /\ EXTRI[ret.topic] = IdentitySE3) => ret.out = CurBrToW(ret.t)

\* C22 witness: a camera pose query at a time of the camera inside both
\* splines, whose body time is beyond them, has returned no pose; the topic
\* has an extrinsic that is not the identity
C22_Witness ==
    /\ ret.fn = "CurCmToW"
    /\ ret.topic \in cfg.CameraTopics
    /\ TO[ret.topic] > 0
    /\ EXTRI[ret.topic] # IdentitySE3
    /\ ~OutOfRange(splines.so3, ret.t) /\ ~OutOfRange(splines.scale, ret.t)
    /\ OutOfRange(splines.so3, ret.t + TO[ret.topic])
    /\ ret.out.result = "nullopt"

\* C22 witness, the other case: a scan pose query has returned the body pose
\* at a body time before the time of the sensor, times an extrinsic
C22_WitnessPose ==
    /\ ret.fn = "CurLkToW"
    /\ ret.topic \in cfg.LiDARTopics
    /\ TO[ret.topic] < 0
    /\ ret.out.result = "pose"
    /\ Len(ret.out.pose) = 2
    /\ ret.out.pose[1].so3At = ret.t + TO[ret.topic]

\* C24 (as claimed): a call of TryLoadSfMData that finds all its files and
\* a cameras file that does not hold exactly one camera returns no
\* reconstruction, and the solver holds none after it.
C24_OneCameraRequired ==
    (sfmRet.fn = "TryLoadSfMData" /\ ~SfMInputMissing /\ sfm.cameras # 1) =>
        /\ sfmRet.out.result # "veta"
        /\ veta = NoVeta

\* the track elements of point p that count: the feature refers back to p and
\* the image is named after a camera frame the data manager holds
CountingTrack(p) ==
    LET track == sfm.points3D[p].track
    IN  {k \in 1..Len(track) :
            /\ sfm.images[track[k].image_id].points2D[track[k].point2D_idx] = p
            /\ \E f \in 1..Len(camMes[sfmRet.topic]) :
                   sfm.images[track[k].image_id].name = ImageName(camMes[sfmRet.topic][f].id)}

\* C25: in the reconstruction TryLoadSfMData returns, every view has a pose
\* stored under its id (and every pose belongs to a view); every observation
\* of every landmark is under the id of a view of the result; and the
\* observations of a landmark are those of its track elements whose image is
\* named after a held camera frame and whose feature refers back to the
\* landmark, so that any other track element contributes none.
C25_ViewsPosesObservationsConsistent ==
    SfMLoaded =>
        LET r == sfmRet.out.veta
        IN  /\ \A viewId \in DOMAIN r.views : r.views[viewId].poseId \in DOMAIN r.poses
            /\ \A viewId \in DOMAIN r.views : r.views[viewId].poseId = viewId
            /\ DOMAIN r.poses = DOMAIN r.views
            /\ \A p \in DOMAIN r.structure :
                /\ DOMAIN r.structure[p].obs \subseteq DOMAIN r.views
                /\ DOMAIN r.structure[p].obs =
                       {sfm.images[sfm.points3D[p].track[k].image_id].name[1] :
                           k \in CountingTrack(p)}

\* C25 witness: a landmark of the result has a track of three elements, one
\* of them with a feature that refers to another point, and keeps fewer
\* observations than its track is long; a held frame has no view
C25_Witness ==
    /\ SfMLoaded
    /\ \E p \in DOMAIN sfmRet.out.veta.structure :
        /\ Cardinality(DOMAIN sfmRet.out.veta.structure[p].obs) < Len(sfm.points3D[p].track)
        /\ \E k \in 1..Len(sfm.points3D[p].track) : k \notin CountingTrack(p)
    /\ sfmRet.out.veta.views # <<>>
    /\ "conflict" \in sfmRet.out.warnings

\* the frames of a stream are in the order of their timestamps
NonDecreasing(seq) == \A i, j \in 1..Len(seq) : i <= j => seq[i].ts <= seq[j].ts

\* C26: the messages of a topic being read in the order of their time, every
\* stream is non-decreasing in frame timestamp while it is read and after the
\* radar regrouping, after AdjustCalibDataSequence and after AlignTimestamp.
C26_StreamsStayTimeOrdered ==
    pc \in {"reading", "checked", "regrouped", "adjusted", "aligned", "fatal"} =>
        \A stream \in AllStreams : NonDecreasing(stream)

\* C26 witness: a log with a regrouped radar has been trimmed and aligned by
\* a raw start after 0; an array of several targets has been kept, and some
\* stream has kept two frames of different times
C26_Witness ==
    /\ pc = "aligned"
    /\ rawStartTimestamp > 0
    /\ cfg.RadarTopics = {"rad_awr"}
    /\ \E k \in 1..Len(radarMes["rad_awr"]) : Len(radarMes["rad_awr"][k].targets) >= 2
    /\ \E stream \in AllStreams : Len(stream) >= 2 /\ stream[1].ts < stream[2].ts

\* C27 (as claimed): once LoadCalibData has completed, the raw window is at
\* least two paddings long, so that the calibration window does not end
\* before it starts, and the splines the solver is constructed with do not
\* either.
C27_CalibWindowNotDegenerate ==
    /\ pc = "aligned" =>
        /\ rawEndTimestamp - rawStartTimestamp >= 2 * TimeOffsetPadding
        /\ GetCalibStartTimestamp <= GetCalibEndTimestamp
    /\ splines.created => splines.so3.MinTime <= GetCalibEndTimestamp

\* the times of the targets of the arrays the regrouped radar streams hold
KeptTargetTimes ==
    UNION {UNION {{radarMes[tp][k].targets[j] : j \in 1..Len(radarMes[tp][k].targets)} :
                     k \in 1..Len(radarMes[tp])} :
              tp \in {x \in DOMAIN radarMes : NeedsRegrouping(x)}}

\* C28 (as claimed): once LoadCalibData has completed, the aligned time of
\* every target of every array a regrouped radar stream has kept, shifted by
\* any time offset of magnitude at most TimeOffsetPadding, lies inside the
\* calibration window.
C28_ShiftedTargetsInsideCalibWindow ==
    pc = "aligned" =>
        \A t \in KeptTargetTimes, d \in {0 - TimeOffsetPadding, 0, TimeOffsetPadding} :
            /\ GetCalibStartTimestamp <= t + d
            /\ t + d <= GetCalibEndTimestamp


\* C29: within one camera topic any two distinct loaded frames have distinct
\* ids, and once StoreImagesForSfM has returned its index holds one entry per
\* frame, which the id-to-frame map of TryLoadSfMData leads back to that frame
C29_FramesHaveDistinctIds ==
    \A tp \in DOMAIN camMes :
        /\ \A j, k \in 1..Len(camMes[tp]) :
               j # k => camMes[tp][j].id # camMes[tp][k].id
        /\ (sfm.exported /\ runRet.fn = "StoreImagesForSfM") =>
               /\ Cardinality(DOMAIN sfm.info) = Len(camMes[tp])
               /\ \A k \in 1..Len(camMes[tp]) :
                      OurIdxToCamFrame(camMes[tp])[camMes[tp][k].id] = camMes[tp][k]

\* C30 as stated: once the destructor has begun, it always eventually
\* completes, whether solving had finished or not, given that a viewer that is
\* told to quit becomes inactive
C30_DestructionCompletes == (life = "waiting") ~> (life = "destroyed")

\* C30: a destructor that began before solving had finished (and so told the
\* viewer to quit) always eventually completes, given that a viewer that is
\* told to quit becomes inactive; after a finished solve it completes only
\* once the viewer's window has been closed
C30_DestructionCompletesAfterQuit ==
    /\ (life = "waiting" /\ ~solveFinished) ~> (life = "destroyed")
    /\ (life = "waiting" /\ ~viewer.active) ~> (life = "destroyed")

\* the destructor has completed after it told a still active viewer to quit
C30_Witness ==
    /\ life = "destroyed"
    /\ ~solveFinished
    /\ viewer.quit
    /\ ~viewer.active
====
